---- MODULE Spec2Model ----
(***************************************************************************)
(* Key lifecycle engine of the KME simulator: the shared key pool          *)
(* (keys/shared_key_pool.py), the per-SAE-pair key store                   *)
(* (keys/key_store.py), the delivery protocol (router/external.py), the    *)
(* peer replication endpoints (router/internal.py, network/broadcaster.py) *)
(* and the persistent bulk pool (db/mongo.py, router/qkd_pool.py).         *)
(*                                                                         *)
(* Three groups of state, each with its own specification:                 *)
(*   SpecPool, SpecPoolRestart : one SharedKeyPoolServer and its snapshot  *)
(*   Spec, SpecConc            : two KMEs, their key stores and the wire   *)
(*   SpecBulk                  : the qkd_blocks collection                 *)
(***************************************************************************)
EXTENDS Integers, Sequences, FiniteSets, TLC

\* ------------------------------------------------------------------------
\* Bounds of the model
\* ------------------------------------------------------------------------
\* number of key IDs (UUIDs) the key generator hands out in one run of the
\* pool on its own
MaxIds == 3
\* number of key IDs the key generator hands out in one run of the two KMEs
MaxKeys == 1
\* broadcast requests that may be under way at the same time
MaxInFlight == 1
\* largest count a caller passes to add_keys_batch / get_keys
MaxCount == 2

\* ------------------------------------------------------------------------
\* Configuration (scaled-down values of the environment defaults)
\* ------------------------------------------------------------------------
\* DEFAULT_KEY_SIZE, bytes
DEFAULT_KEY_SIZE == 32
\* MAX_KEY_COUNT, the largest value the operator configures
MAX_KEY_COUNT == 2
\* KEY_GEN_BATCH_SIZE
KEY_GEN_BATCH_SIZE == 1
\* REFILL_THRESHOLD
REFILL_THRESHOLD == 1

KME == {1, 2}
Peer(k) == 3 - k

\* ------------------------------------------------------------------------
\* Sequence helpers
\* ------------------------------------------------------------------------
Range(s) == {s[i] : i \in 1..Len(s)}
Ids(s) == {s[i].key_ID : i \in 1..Len(s)}
IdsOf(S) == {x.key_ID : x \in S}
Min(a, b) == IF a < b THEN a ELSE b
RemoveAt(s, i) == SubSeq(s, 1, i - 1) \o SubSeq(s, i + 1, Len(s))
NoDup(s) == \A i, j \in 1..Len(s) : s[i].key_ID = s[j].key_ID => i = j
\* the sequences over S of length at most n
SeqUpTo(S, n) == UNION {[1..m -> S] : m \in 0..n}

\* ------------------------------------------------------------------------
\* Key generator (keys/key_generator.py is not part of the sources: a key is
\* {key_ID: fresh UUID, key: base64 of `size` random bytes}, spec 4.1).  The
\* n-th UUID of a run is modelled by the number n; the key material is
\* determined by the key_ID and is not represented separately.
\* ------------------------------------------------------------------------
None == [key_ID |-> 0, size |-> 0]
generate_key(id, size) == [key_ID |-> id, size |-> size]
\* the keys generated for the UUIDs first .. first+n-1
generate_keys(first, n) == [i \in 1..n |-> generate_key(first + i - 1, DEFAULT_KEY_SIZE)]

VARIABLES
    server,      \* server[k]: the SharedKeyPoolServer object of KME k
    pool_file,   \* pool_file[k]: contents of pool_keys.json of KME k
    nextId,      \* the next UUID of the key generator
    gk,          \* gk[t]: a thread inside SharedKeyPoolServer.get_keys
    container,   \* container[k]: KeyStore.container of KME k, a list of buckets
    kme_list,    \* kme_list[k]: the peer directory the scanner of KME k fills
    net,         \* broadcast requests sent and not yet handled by the peer
    th,          \* th[t]: a request-handler thread of the delivery API
    resp,        \* resp[t]: the response of thread t's latest request
    delivered,   \* delivered[id]: 200 dec_keys responses that held key id (0, 1, 2 = more)
    blocks,      \* the qkd_blocks collection, in insertion order
    nextBlock,   \* the next UUID of generate_key_block
    now,         \* datetime.utcnow()
    bth,         \* bth[t]: a request-handler thread of the bulk pool
    bresp,       \* bresp[t]: the response of thread t's latest bulk request
    fetched,     \* fetched[id]: the keyData fetch responses have carried for keyId id
    app          \* app[k]: the process of KME k: stop events, background threads, singletons

poolVars == <<server, pool_file, nextId, gk>>
kmeVars == <<container, kme_list, net, th, resp, delivered>>
bulkVars == <<blocks, nextBlock, now, bth, bresp, fetched>>
appVars == <<app>>

\* ------------------------------------------------------------------------
\* SharedKeyPoolServer
\* ------------------------------------------------------------------------
NoFile == [exists |-> FALSE, keys |-> <<>>, total_generated |-> 0, total_retrieved |-> 0]

\* __init__ before _load_keys
NewServer(max) ==
    [keys |-> <<>>, reserved_keys |-> {}, max_key_count |-> max,
     total_generated |-> 0, total_retrieved |-> 0]

\* _load_keys: the key list and the two totals are taken from the file as they are
load_keys(p, f) ==
    IF f.exists
    THEN [p EXCEPT !.keys = f.keys,
                   !.total_generated = f.total_generated,
                   !.total_retrieved = f.total_retrieved]
    ELSE p

\* _save_keys: the file written from the in-memory pool
save_keys(p) ==
    [exists |-> TRUE, keys |-> p.keys,
     total_generated |-> p.total_generated, total_retrieved |-> p.total_retrieved]

\* reserved_keys[key['key_ID']] = key
DictPut(d, key) == {x \in d : x.key_ID # key.key_ID} \cup {key}
DictPutAll(d, s) == {x \in d : x.key_ID \notin Ids(s)} \cup Range(s)

\* add_keys_batch: [srv, file, ret] for the count the caller passes
add_keys_batch(p, f, count, first) ==
    LET remaining_capacity == p.max_key_count - Len(p.keys)
        to_generate == Min(count, remaining_capacity)
    IN  IF to_generate > 0
        THEN LET q == [p EXCEPT !.keys = @ \o generate_keys(first, to_generate),
                                !.total_generated = @ + to_generate]
             IN  [srv |-> q, file |-> save_keys(q), ret |-> to_generate]
        ELSE [srv |-> p, file |-> f, ret |-> to_generate]

\* a refill loop that never finds the pool below the threshold
refill_never(p) == 0

\* one pass of the start_generation loop body: keys appended, total_generated
\* counted once per key in _generate_key_unlocked and once more per batch;
\* no snapshot is written
refill(p) ==
    LET current_count == Len(p.keys)
        remaining_capacity == p.max_key_count - current_count
    IN  IF current_count < REFILL_THRESHOLD /\ remaining_capacity > 0
        THEN Min(KEY_GEN_BATCH_SIZE, remaining_capacity)
        ELSE 0

start_generation(p, first) ==
    LET batch_count == refill(p)
    IN  [p EXCEPT !.keys = @ \o generate_keys(first, batch_count),
                  !.total_generated = @ + batch_count + batch_count]

\* get_keys with remove=TRUE popping the key without counting it
TakeKeyUncounted(p, remove) ==
    LET key == Head(p.keys)
    IN  IF remove
        THEN [p EXCEPT !.keys = Tail(@)]
        ELSE [p EXCEPT !.keys = Tail(@), !.reserved_keys = DictPut(@, key)]

\* get_keys with remove=FALSE copying the key and leaving it in the pool list
TakeKeyCopyOnly(p, remove) ==
    LET key == Head(p.keys)
    IN  IF remove
        THEN [p EXCEPT !.keys = Tail(@), !.total_retrieved = @ + 1]
        ELSE [p EXCEPT !.reserved_keys = DictPut(@, key)]

\* get_keys, the pop of one key: remove=TRUE pops and counts it, remove=FALSE
\* pops it and stores the original in reserved_keys
TakeKey(p, remove) ==
    LET key == Head(p.keys)
    IN  IF remove
        THEN [p EXCEPT !.keys = Tail(@), !.total_retrieved = @ + 1]
        ELSE [p EXCEPT !.keys = Tail(@), !.reserved_keys = DictPut(@, key)]

\* get_keys, the while loop run with the lock held until the count is reached
\* or the pool is empty: [srv, keys_retrieved]
RECURSIVE GetKeysLoop(_, _, _, _)
GetKeysLoop(p, count, remove, keys_retrieved) ==
    IF Len(keys_retrieved) < count /\ Len(p.keys) > 0
    THEN GetKeysLoop(TakeKey(p, remove), count, remove,
                     Append(keys_retrieved, Head(p.keys)))
    ELSE [srv |-> p, keys_retrieved |-> keys_retrieved]

\* get_key_by_id putting a consumed reserved key back at the end of the pool
\* list
get_key_by_id_requeue(p, f, key_id, remove) ==
    IF key_id \in IdsOf(p.reserved_keys) /\ remove
    THEN LET found_key == CHOOSE x \in p.reserved_keys : x.key_ID = key_id
             q == [p EXCEPT !.reserved_keys = @ \ {found_key},
                            !.keys = Append(@, found_key),
                            !.total_retrieved = @ + 1]
         IN  [srv |-> q, file |-> save_keys(q), ret |-> found_key]
    ELSE [srv |-> p, file |-> f, ret |-> None]

\* a search of the pool list that finds nothing
FirstIndexNone(s, key_id) == 0

\* get_key_by_id: reserved_keys first, then the pool list: [srv, file, ret]
FirstIndex(s, key_id) ==
    IF key_id \in Ids(s)
    THEN CHOOSE i \in 1..Len(s) : s[i].key_ID = key_id
                                  /\ \A j \in 1..(i - 1) : s[j].key_ID # key_id
    ELSE 0

get_key_by_id(p, f, key_id, remove) ==
    IF key_id \in IdsOf(p.reserved_keys)
    THEN LET found_key == CHOOSE x \in p.reserved_keys : x.key_ID = key_id
         IN  IF remove
             THEN LET q == [p EXCEPT !.reserved_keys = @ \ {found_key},
                                     !.total_retrieved = @ + 1]
                  IN  [srv |-> q, file |-> save_keys(q), ret |-> found_key]
             ELSE [srv |-> p, file |-> f, ret |-> found_key]
    ELSE LET i == FirstIndex(p.keys, key_id)
         IN  IF i = 0
             THEN [srv |-> p, file |-> f, ret |-> None]
             ELSE IF remove
                  THEN LET q == [p EXCEPT !.keys = RemoveAt(@, i),
                                          !.total_retrieved = @ + 1]
                       IN  [srv |-> q, file |-> save_keys(q), ret |-> p.keys[i]]
                  ELSE [srv |-> p, file |-> f, ret |-> p.keys[i]]

\* ------------------------------------------------------------------------
\* The shared pool on its own: callers of one SharedKeyPoolServer (KME 1, the
\* generating node).  A get_keys call holds the pool lock while it runs its
\* loop and gives it up only inside condition.wait.
\* ------------------------------------------------------------------------
GkThreads == {1, 2}
GkIdle == [pc |-> "idle", count |-> 0, remove |-> FALSE, keys_retrieved |-> <<>>]

PoolInit ==
    /\ server = [k \in KME |-> load_keys(NewServer(MAX_KEY_COUNT), NoFile)]
    /\ pool_file = [k \in KME |-> NoFile]
    /\ nextId = 1
    /\ gk = [t \in GkThreads |-> GkIdle]

\* both KMEs started with MAX_KEY_COUNT = max and no snapshot file
PoolStart(max) ==
    /\ server = [k \in KME |-> load_keys(NewServer(max), NoFile)]
    /\ pool_file = [k \in KME |-> NoFile]
    /\ nextId = 1
    /\ gk = [t \in GkThreads |-> GkIdle]

\* add_keys_batch(count) called on the pool of KME 1
AddKeysBatch(count) ==
    LET r == add_keys_batch(server[1], pool_file[1], count, nextId)
    IN  /\ r.ret > 0
        /\ nextId + r.ret - 1 <= MaxIds
        /\ server' = [server EXCEPT ![1] = r.srv]
        /\ pool_file' = [pool_file EXCEPT ![1] = r.file]
        /\ nextId' = nextId + r.ret
        /\ UNCHANGED gk

\* one pass of the background refill loop that appends keys
RefillUpTo(maxId) ==
    LET n == refill(server[1])
    IN  /\ n > 0
        /\ nextId + n - 1 <= maxId
        /\ server' = [server EXCEPT ![1] = start_generation(server[1], nextId)]
        /\ nextId' = nextId + n
        /\ UNCHANGED <<pool_file, gk>>

\* get_keys from the lock acquisition (or a wake-up) on: the loop takes what
\* the pool has; with the count reached it snapshots (if modified) and
\* returns, otherwise it waits on the condition
GetKeysRun(t, count, remove, keys_retrieved) ==
    LET r == GetKeysLoop(server[1], count, remove, keys_retrieved)
        done == Len(r.keys_retrieved) >= count
        modified == Len(r.keys_retrieved) > 0
    IN  /\ server' = [server EXCEPT ![1] = r.srv]
        /\ pool_file' = IF done /\ modified
                        THEN [pool_file EXCEPT ![1] = save_keys(r.srv)]
                        ELSE pool_file
        /\ gk' = [gk EXCEPT ![t] = [pc |-> IF done THEN "idle" ELSE "waiting",
                                    count |-> count, remove |-> remove,
                                    keys_retrieved |-> r.keys_retrieved]]
        /\ UNCHANGED nextId

GetKeysCall(t, count, remove) ==
    /\ gk[t].pc = "idle"
    /\ GetKeysRun(t, count, remove, <<>>)

\* condition.wait returns (notified by an append, or its timeout ran out)
\* while the pool holds keys: the loop goes on
GetKeysWake(t) ==
    /\ gk[t].pc = "waiting"
    /\ Len(server[1].keys) > 0
    /\ GetKeysRun(t, gk[t].count, gk[t].remove, gk[t].keys_retrieved)

\* the deadline has passed and the pool is empty: the partial list is returned
GetKeysTimeout(t) ==
    /\ gk[t].pc = "waiting"
    /\ Len(server[1].keys) = 0
    /\ pool_file' = IF Len(gk[t].keys_retrieved) > 0
                    THEN [pool_file EXCEPT ![1] = save_keys(server[1])]
                    ELSE pool_file
    /\ gk' = [gk EXCEPT ![t].pc = "idle"]
    /\ UNCHANGED <<server, nextId>>

\* get_key_by_id(key_id, remove) called on the pool of KME 1
GetKeyById(key_id, remove) ==
    LET r == get_key_by_id(server[1], pool_file[1], key_id, remove)
    IN  /\ server' = [server EXCEPT ![1] = r.srv]
        /\ pool_file' = [pool_file EXCEPT ![1] = r.file]
        /\ UNCHANGED <<nextId, gk>>

\* the process of KME 1 is started again with MAX_KEY_COUNT = max: the server
\* object is constructed anew and rehydrated from pool_keys.json; the request
\* threads of the old process are gone
Restart(max) ==
    /\ server' = [server EXCEPT ![1] = load_keys(NewServer(max), pool_file[1])]
    /\ gk' = [t \in GkThreads |-> GkIdle]
    /\ UNCHANGED <<pool_file, nextId>>

\* ------------------------------------------------------------------------
\* Delivery API configuration
\* ------------------------------------------------------------------------
\* MAX_KEYS_PER_REQUEST
MAX_KEYS_PER_REQUEST == 2
\* MIN_KEY_SIZE and MAX_KEY_SIZE, bytes
MIN_KEY_SIZE == 8
MAX_KEY_SIZE == 64
\* a request size in bits other than DEFAULT_KEY_SIZE * 8
OtherSizeBits == 512
\* a key_ID no key carries
FakeId == 0
\* length of the longest key_IDs list of a dec_keys request
MaxReq == 2

\* ATTACHED_SAE_ID of each KME
AttachedSae(k) == IF k = 1 THEN "A" ELSE "B"
SAE == {"A", "B"}
\* OTHER_KMES of each KME
OtherKmes(k) == {Peer(k)}

\* ------------------------------------------------------------------------
\* KeyStore
\* ------------------------------------------------------------------------
Matches(b, master_sae_id, slave_sae_id) ==
    b.master_sae_id = master_sae_id /\ b.slave_sae_id = slave_sae_id

\* index of the first bucket of (M, S) at or after position i, 0 if there is none
RECURSIVE FirstBucket(_, _, _, _)
FirstBucket(c, i, master_sae_id, slave_sae_id) ==
    IF i > Len(c) THEN 0
    ELSE IF Matches(c[i], master_sae_id, slave_sae_id) THEN i
    ELSE FirstBucket(c, i + 1, master_sae_id, slave_sae_id)

\* KeyStore.get_keys: the key list of the first bucket of (M, S)
get_keys(c, master_sae_id, slave_sae_id) ==
    LET i == FirstBucket(c, 1, master_sae_id, slave_sae_id)
    IN  IF i = 0 THEN <<>> ELSE c[i].keys

\* append_keys without the else: the loop also extends the bucket just created,
\* whose list is the caller's list
append_keys_no_else(c, master_sae_id, slave_sae_id, keys) ==
    LET i == FirstBucket(c, 1, master_sae_id, slave_sae_id)
    IN  IF i = 0
        THEN Append(c, [master_sae_id |-> master_sae_id,
                        slave_sae_id |-> slave_sae_id, keys |-> keys \o keys])
        ELSE [c EXCEPT ![i].keys = @ \o keys]

\* KeyStore.append_keys, the change of the container: a new bucket, or the
\* first bucket of (M, S) extended, without any deduplication
append_keys(c, master_sae_id, slave_sae_id, keys) ==
    LET i == FirstBucket(c, 1, master_sae_id, slave_sae_id)
    IN  IF i = 0
        THEN Append(c, [master_sae_id |-> master_sae_id,
                        slave_sae_id |-> slave_sae_id, keys |-> keys])
        ELSE [c EXCEPT ![i].keys = @ \o keys]

\* KeyStore.remove_keys, the enumerate loop for one key from bucket index i on:
\* in every bucket of (M, S) the first key with that key_ID is deleted; a bucket
\* found empty is deleted and ends the loop
RECURSIVE RemoveKey(_, _, _, _, _)
RemoveKey(c, i, master_sae_id, slave_sae_id, key_id) ==
    IF i > Len(c) THEN c
    ELSE IF ~Matches(c[i], master_sae_id, slave_sae_id)
    THEN RemoveKey(c, i + 1, master_sae_id, slave_sae_id, key_id)
    ELSE LET j == FirstIndex(c[i].keys, key_id)
             ks == IF j = 0 THEN c[i].keys ELSE RemoveAt(c[i].keys, j)
         IN  IF Len(ks) = 0
             THEN RemoveAt(c, i)
             ELSE RemoveKey([c EXCEPT ![i].keys = ks], i + 1,
                            master_sae_id, slave_sae_id, key_id)

\* KeyStore.remove_keys, the change of the container: only buckets of the
\* ordered pair (M, S) are looked at
RECURSIVE remove_keys(_, _, _, _)
remove_keys(c, master_sae_id, slave_sae_id, keys) ==
    IF keys = <<>> THEN c
    ELSE remove_keys(RemoveKey(c, 1, master_sae_id, slave_sae_id, Head(keys).key_ID),
                     master_sae_id, slave_sae_id, Tail(keys))

\* Broadcaster._broadcast: one request per configured peer
Broadcast(k, url, master_sae_id, slave_sae_id, keys) ==
    {[to |-> o, url |-> url, master_sae_id |-> master_sae_id,
      slave_sae_id |-> slave_sae_id, keys |-> keys] : o \in OtherKmes(k)}

\* Scanner.find_kme: the first directory entry with that SAE ID
find_kme(l, sae_id) ==
    IF \E i \in 1..Len(l) : l[i].SAE_ID = sae_id
    THEN l[CHOOSE i \in 1..Len(l) : l[i].SAE_ID = sae_id
                                    /\ \A j \in 1..(i - 1) : l[j].SAE_ID # sae_id]
    ELSE [KME_ID |-> 0, SAE_ID |-> ""]

\* a scan that only updates the entries the directory already has
scan_kmes_update_only(l, o) ==
    [i \in 1..Len(l) |-> IF l[i].KME_ID = o
                         THEN [l[i] EXCEPT !.SAE_ID = AttachedSae(o)]
                         ELSE l[i]]

\* Scanner._scan_kmes, a successful probe of peer o: upsert by KME_ID
scan_kmes(l, o) ==
    IF \E i \in 1..Len(l) : l[i].KME_ID = o
    THEN [i \in 1..Len(l) |-> IF i = (CHOOSE j \in 1..Len(l) : l[j].KME_ID = o
                                          /\ \A m \in 1..(j - 1) : l[m].KME_ID # o)
                              THEN [l[i] EXCEPT !.SAE_ID = AttachedSae(o)]
                              ELSE l[i]]
    ELSE Append(l, [KME_ID |-> o, SAE_ID |-> AttachedSae(o)])

\* ------------------------------------------------------------------------
\* The delivery API: request-handler threads of External (router/external.py).
\* The key store has no lock and the handlers call out to the pool and to the
\* peer, so a handler is a sequence of steps that other threads interleave.
\* ------------------------------------------------------------------------
Threads == {1, 2}

ThIdle ==
    [pc |-> "idle", kme |-> 0, master_sae_id |-> "", slave_sae_id |-> "",
     requested_keys |-> <<>>, selected_keys |-> <<>>, missing_ids |-> <<>>,
     number_of_keys |-> 0, key_size |-> 0, keys |-> <<>>, seen |-> {}]

NoResp == [op |-> "none", status |-> 0]

KmeInit ==
    /\ container = [k \in KME |-> <<>>]
    /\ kme_list = [k \in KME |-> <<>>]
    /\ net = {}
    /\ th = [t \in Threads |-> ThIdle]
    /\ resp = [t \in Threads |-> NoResp]
    /\ delivered = [id \in 1..MaxKeys |-> 0]

\* the handler of thread t returns with the given status.  Every dec_keys
\* request still in flight on the same KME notes the keys a 200 dec_keys
\* response carried (seen).
Reply(t, op, status, keys) ==
    /\ th' = [u \in Threads |->
                IF u = t THEN ThIdle
                ELSE IF op = "dec" /\ status = 200 /\ th[u].kme = th[t].kme
                        /\ th[u].pc \in {"dec_pool", "dec_reply"}
                THEN [th[u] EXCEPT !.seen = @ \cup Ids(keys)]
                ELSE th[u]]
    /\ resp' = [resp EXCEPT ![t] = [op |-> op, status |-> status]]

\* the (M, S) pair enc_keys stores under (get_key, lines 66-72)
EncMaster(k, slave_sae_id) ==
    LET kme == find_kme(kme_list[k], slave_sae_id)
        is_this_sae_slave == slave_sae_id = AttachedSae(k)
    IN  IF kme.KME_ID = 0 THEN AttachedSae(k)
        ELSE IF is_this_sae_slave THEN kme.SAE_ID ELSE AttachedSae(k)

\* a field the request body does not have (data.get takes its default)
NoValue == -1

\* External.get_key up to the key loop: the request is parsed and checked
\* against MAX_KEYS_PER_REQUEST, the size bounds and MAX_KEY_COUNT (the value
\* of the process environment, which its pool server was constructed with)
EncBegin(t, k, slave_sae_id, method, number, size) ==
    LET number_of_keys == IF method = "POST"
                          THEN IF number = NoValue THEN 1 ELSE number
                          ELSE 1
        key_size == IF method = "POST"
                    THEN IF size = NoValue THEN DEFAULT_KEY_SIZE * 8 ELSE size
                    ELSE DEFAULT_KEY_SIZE
        master_sae_id == EncMaster(k, slave_sae_id)
        stored_keys == get_keys(container[k], master_sae_id, slave_sae_id)
        rejected == \/ number_of_keys > MAX_KEYS_PER_REQUEST
                    \/ key_size > MAX_KEY_SIZE * 8
                    \/ key_size < MIN_KEY_SIZE * 8
                    \/ Len(stored_keys) + number_of_keys > server[k].max_key_count
    IN  /\ th[t].pc = "idle"
        /\ IF rejected
           THEN /\ th' = th
                /\ resp' = [resp EXCEPT ![t] = [op |-> "enc", status |-> 400]]
           ELSE /\ th' = [th EXCEPT ![t] =
                            [ThIdle EXCEPT !.pc = "enc_loop", !.kme = k,
                                           !.master_sae_id = master_sae_id,
                                           !.slave_sae_id = slave_sae_id,
                                           !.number_of_keys = number_of_keys,
                                           !.key_size = key_size]]
                /\ resp' = [resp EXCEPT ![t] = NoResp]
        /\ UNCHANGED <<poolVars, container, kme_list, net, delivered, bulkVars, appVars>>

\* SharedKeyPoolClient.get_key taking every key from the pool
OutsidePoolNever(key_size) == FALSE

\* SharedKeyPoolClient.get_key, line 281: a size in bits other than the default
\* one bypasses the pool
OutsidePool(key_size) == key_size # 0 /\ key_size # DEFAULT_KEY_SIZE * 8

\* one pass of the key loop, SharedKeyPoolClient.get_key: a key of another
\* size is generated outside the pool; a default-size key is reserved in the
\* pool of KME 1 (by KME 2 through /api/v1/internal/get_shared_key)
\* (max_ids: the number of key IDs the key generator hands out)
EncTakeUpTo(t, max_ids) ==
    /\ th[t].pc = "enc_loop"
    /\ Len(th[t].keys) < th[t].number_of_keys
    /\ IF OutsidePool(th[t].key_size)
       THEN /\ nextId <= max_ids
            /\ th' = [th EXCEPT ![t].keys =
                        Append(@, generate_key(nextId, (th[t].key_size + 7) \div 8))]
            /\ nextId' = nextId + 1
            /\ UNCHANGED <<server, pool_file>>
       ELSE LET r == GetKeysLoop(server[1], 1, FALSE, <<>>)
            IN  /\ Len(server[1].keys) > 0
                /\ server' = [server EXCEPT ![1] = r.srv]
                /\ pool_file' = [pool_file EXCEPT ![1] = save_keys(r.srv)]
                /\ th' = [th EXCEPT ![t].keys = @ \o r.keys_retrieved]
                /\ UNCHANGED nextId
    /\ UNCHANGED <<gk, container, kme_list, net, resp, delivered, bulkVars, appVars>>

EncTake(t) == EncTakeUpTo(t, MaxKeys)

\* the pool wait ran out (or the request of KME 2 to KME 1 failed): 503
EncTimeout(t) ==
    /\ th[t].pc = "enc_loop"
    /\ Len(th[t].keys) < th[t].number_of_keys
    /\ th[t].key_size = DEFAULT_KEY_SIZE * 8
    /\ Len(server[1].keys) = 0 \/ th[t].kme = 2
    /\ Reply(t, "enc", 503, <<>>)
    /\ UNCHANGED <<poolVars, container, kme_list, net, delivered, bulkVars, appVars>>

\* all keys acquired: append_keys with do_broadcast=True, 200 with the keys
\* (max_in_flight: the number of broadcast requests that may be under way)
EncReplyUpTo(t, max_in_flight) ==
    LET k == th[t].kme
    IN  /\ th[t].pc = "enc_loop"
        /\ Len(th[t].keys) = th[t].number_of_keys
        /\ Cardinality(net) < max_in_flight
        /\ container' = [container EXCEPT ![k] =
              append_keys(@, th[t].master_sae_id, th[t].slave_sae_id, th[t].keys)]
        /\ net' = net \cup Broadcast(k, "exchange", th[t].master_sae_id,
                                     th[t].slave_sae_id, th[t].keys)
        /\ Reply(t, "enc", 200, th[t].keys)
        /\ UNCHANGED <<poolVars, kme_list, delivered, bulkVars, appVars>>

EncReply(t) == EncReplyUpTo(t, MaxInFlight)

\* External.get_key_with_ids, lines 103-124: the requested IDs are read, the
\* candidates of both directions are taken from the key store, the keys
\* found there are selected and the other IDs listed
DecSelect(c, master_sae_id, slave_sae_id, method, key_id_params) ==
    LET requested_keys ==
            IF method = "GET" /\ key_id_params = <<>>
            THEN LET all_keys == get_keys(c, master_sae_id, slave_sae_id)
                 IN  [i \in 1..Len(all_keys) |-> all_keys[i].key_ID]
            ELSE key_id_params
        keys_master_to_slave == get_keys(c, master_sae_id, slave_sae_id)
        keys_slave_to_master == get_keys(c, slave_sae_id, master_sae_id)
        all_available_keys == keys_master_to_slave \o keys_slave_to_master
        InRequested(x) == x.key_ID \in Range(requested_keys)
        selected_keys == SelectSeq(all_available_keys, InRequested)
        NotFound(kid) == kid \notin Ids(selected_keys)
    IN  [requested_keys |-> requested_keys, selected_keys |-> selected_keys,
         missing_ids |-> SelectSeq(requested_keys, NotFound)]

\* lines 126-132: each missing ID is looked up with
\* SharedKeyPoolClient.get_key_by_id, which removes the key from the pool of
\* KME 1 (remove=True on both KMEs); with the peer unreachable (ok = FALSE)
\* a lookup of KME 2 finds nothing: [srv, file, selected_keys]
RECURSIVE DecLookup(_, _, _, _, _)
DecLookup(p, f, missing_ids, selected_keys, ok) ==
    IF missing_ids = <<>>
    THEN [srv |-> p, file |-> f, selected_keys |-> selected_keys]
    ELSE IF ~ok
    THEN DecLookup(p, f, Tail(missing_ids), selected_keys, ok)
    ELSE LET r == get_key_by_id(p, f, Head(missing_ids), TRUE)
         IN  DecLookup(r.srv, r.file, Tail(missing_ids),
                       IF r.ret # None THEN Append(selected_keys, r.ret)
                       ELSE selected_keys, ok)

\* the handler up to the pool lookups, run by thread t
DecBegin(t, k, master_sae_id, slave_sae_id, method, key_id_params) ==
    LET sel == DecSelect(container[k], master_sae_id, slave_sae_id, method,
                         key_id_params)
    IN  /\ th[t].pc = "idle"
        /\ th' = [th EXCEPT ![t] =
                    [ThIdle EXCEPT !.pc = IF sel.missing_ids = <<>> THEN "dec_reply"
                                          ELSE "dec_pool",
                                   !.kme = k,
                                   !.master_sae_id = master_sae_id,
                                   !.slave_sae_id = slave_sae_id,
                                   !.requested_keys = sel.requested_keys,
                                   !.selected_keys = sel.selected_keys,
                                   !.missing_ids = sel.missing_ids]]
        /\ resp' = [resp EXCEPT ![t] = NoResp]
        /\ UNCHANGED <<poolVars, container, kme_list, net, delivered, bulkVars, appVars>>

\* the pool lookup of the first missing ID, run by thread t; the request of
\* KME 2 to KME 1 may fail (ok = FALSE)
DecPool(t, ok) ==
    LET r == DecLookup(server[1], pool_file[1], <<Head(th[t].missing_ids)>>,
                       th[t].selected_keys, ok)
        rest == Tail(th[t].missing_ids)
    IN  /\ th[t].pc = "dec_pool"
        /\ ok \/ th[t].kme = 2
        /\ server' = [server EXCEPT ![1] = r.srv]
        /\ pool_file' = [pool_file EXCEPT ![1] = r.file]
        /\ th' = [th EXCEPT ![t].selected_keys = r.selected_keys,
                            ![t].missing_ids = rest,
                            ![t].pc = IF rest = <<>> THEN "dec_reply" ELSE "dec_pool"]
        /\ UNCHANGED <<nextId, gk, container, kme_list, net, resp, delivered, bulkVars, appVars>>

\* the status of a dec_keys request, lines 139-148
DecStatus(requested_keys, selected_keys) ==
    IF Len(selected_keys) = 0 THEN 404
    ELSE IF Len(requested_keys) # Len(selected_keys) THEN 206
    ELSE 200

\* the key store after the OTP consumption of a full match (line 146)
DecRemove(c, master_sae_id, slave_sae_id, selected_keys) ==
    remove_keys(c, master_sae_id, slave_sae_id, selected_keys)

\* lines 139-148 on KME k: 404, 206 with the keys found, or 200 after
\* remove_keys with do_broadcast=True
\* (max_in_flight: the number of broadcast requests that may be under way)
DecFinish(k, master_sae_id, slave_sae_id, requested_keys, selected_keys, max_in_flight) ==
    IF DecStatus(requested_keys, selected_keys) = 200
    THEN /\ Cardinality(net) < max_in_flight
         /\ container' = [container EXCEPT ![k] =
               DecRemove(@, master_sae_id, slave_sae_id, selected_keys)]
         /\ net' = net \cup Broadcast(k, "remove", master_sae_id, slave_sae_id,
                                      selected_keys)
         /\ delivered' = [id \in 1..MaxKeys |->
                            IF id \in Ids(selected_keys)
                            THEN Min(delivered[id] + 1, 2) ELSE delivered[id]]
    ELSE UNCHANGED <<container, net, delivered>>

\* the end of the handler, run by thread t
DecReplyUpTo(t, max_in_flight) ==
    /\ th[t].pc = "dec_reply"
    /\ DecFinish(th[t].kme, th[t].master_sae_id, th[t].slave_sae_id,
                 th[t].requested_keys, th[t].selected_keys, max_in_flight)
    /\ Reply(t, "dec", DecStatus(th[t].requested_keys, th[t].selected_keys),
             th[t].selected_keys)
    /\ UNCHANGED <<poolVars, kme_list, bulkVars, appVars>>

DecReply(t) == DecReplyUpTo(t, MaxInFlight)

\* a peer endpoint that handles the request with do_broadcast=True
DeliverAndForward(m) ==
    /\ m \in net
    /\ net' = (net \ {m}) \cup Broadcast(m.to, m.url, m.master_sae_id,
                                         m.slave_sae_id, m.keys)
    /\ container' = [container EXCEPT ![m.to] =
          IF m.url = "exchange"
          THEN append_keys(@, m.master_sae_id, m.slave_sae_id, m.keys)
          ELSE remove_keys(@, m.master_sae_id, m.slave_sae_id, m.keys)]
    /\ UNCHANGED <<poolVars, kme_list, th, resp, delivered, bulkVars, appVars>>

\* Internal.do_kme_key_exchange / do_remove_kme_key: the peer handles a
\* broadcast request with do_broadcast=False
Deliver(m) ==
    /\ m \in net
    /\ net' = net \ {m}
    /\ container' = [container EXCEPT ![m.to] =
          IF m.url = "exchange"
          THEN append_keys(@, m.master_sae_id, m.slave_sae_id, m.keys)
          ELSE remove_keys(@, m.master_sae_id, m.slave_sae_id, m.keys)]
    /\ UNCHANGED <<poolVars, kme_list, th, resp, delivered, bulkVars, appVars>>

\* a failed broadcast that undoes the sender's change of its key store
DropAndRollback(m) ==
    /\ m \in net
    /\ net' = net \ {m}
    /\ container' = [container EXCEPT ![Peer(m.to)] =
          IF m.url = "exchange"
          THEN remove_keys(@, m.master_sae_id, m.slave_sae_id, m.keys)
          ELSE append_keys(@, m.master_sae_id, m.slave_sae_id, m.keys)]
    /\ UNCHANGED <<poolVars, kme_list, th, resp, delivered, bulkVars, appVars>>

\* the broadcast request fails (RequestException, logged and swallowed)
Drop(m) ==
    /\ m \in net
    /\ net' = net \ {m}
    /\ UNCHANGED <<poolVars, container, kme_list, th, resp, delivered, bulkVars, appVars>>

\* the background refill loop of KME 1
Generate ==
    /\ RefillUpTo(MaxKeys)
    /\ UNCHANGED <<kmeVars, bulkVars, appVars>>

\* the requests the SAEs send
Methods == {"POST", "GET"}
Numbers == 1..(MAX_KEYS_PER_REQUEST + 1)
Sizes == {DEFAULT_KEY_SIZE * 8, OtherSizeBits}
KeyIdParams == SeqUpTo({FakeId} \cup 1..MaxKeys, MaxReq)

\* the steps of an enc_keys request to a KME of K with a number of N and a
\* size of Z, on thread t
EncStepsOf(t, K, N, Z) ==
    \/ \E k \in K, slave_sae_id \in SAE, method \in Methods,
          number \in N, size \in Z :
          EncBegin(t, k, slave_sae_id, method, number, size)
    \/ EncTake(t)
    \/ EncTimeout(t)
    \/ EncReply(t)

EncSteps(t, K, Z) == EncStepsOf(t, K, Numbers, Z)

\* the steps of a dec_keys request to a KME of K with key_ID parameters of P,
\* on thread t
DecSteps(t, K, P) ==
    \/ \E k \in K, master_sae_id \in SAE, slave_sae_id \in SAE,
          method \in Methods, key_id_params \in P :
          DecBegin(t, k, master_sae_id, slave_sae_id, method, key_id_params)
    \/ \E ok \in BOOLEAN : DecPool(t, ok)
    \/ DecReply(t)

\* one request at a time, to either KME
Handlers == EncSteps(1, KME, Sizes) \/ DecSteps(1, KME, KeyIdParams)

Next ==
    \/ Generate
    \/ Handlers
    \/ \E m \in net : Deliver(m)
    \/ \E m \in net : Drop(m)

\* ------------------------------------------------------------------------
\* The persistent bulk pool: QkdBlock (db/mongo.py) and QkdPoolRouter
\* (router/qkd_pool.py).  The limits are scaled down: MAX_BLOCKS_PER_REQUEST
\* is 10000, the default limit 1000 and the largest limit 10000 in the source.
\* ------------------------------------------------------------------------
MAX_BLOCKS_PER_REQUEST == 2
DEFAULT_LIMIT == 1
MAX_LIMIT == 2
\* blocks ever stored
MaxBlocks == 2
\* length of the longest keyIds list of a fetch that names stored blocks
MaxFetch == 2
\* a missing senderId / receiverId / limit
NoId == ""
NoLimit == -1
SenderIds == {"alice"}
ReceiverIds == {"bob", "carol"}
\* secrets.token_bytes: the key material a block may get
KeyData == {"d0", "d1"}

BulkThreads == {1, 2}
BthIdle ==
    [pc |-> "idle", sender_id |-> NoId, receiver_id |-> NoId, docs |-> <<>>,
     key_ids |-> <<>>, limit |-> NoLimit, pending_ids |-> {}, results |-> <<>>]
NoBulkResp == [op |-> "none", status |-> 0]

BulkInit ==
    /\ blocks = <<>>
    /\ nextBlock = 1
    /\ now = 1
    /\ bth = [t \in BulkThreads |-> BthIdle]
    /\ bresp = [t \in BulkThreads |-> NoBulkResp]
    /\ fetched = [id \in 1..MaxBlocks |-> {}]

\* generate_key_block and the QkdBlock built from it
QkdBlock(key_id, sender_id, receiver_id, key_data, created_at) ==
    [keyId |-> key_id, senderId |-> sender_id, receiverId |-> receiver_id,
     keyData |-> key_data, deliveredToReceiver |-> FALSE, createdAt |-> created_at]

BlockIds(coll) == {coll[i].keyId : i \in 1..Len(coll)}

\* the query of find_pending_for_receiver and count_pending
PendingQuery(b, receiver_id, sender_id) ==
    /\ b.receiverId = receiver_id
    /\ ~b.deliveredToReceiver
    /\ sender_id # NoId => b.senderId = sender_id

\* find_pending_for_receiver with a cursor that stops one document early
find_pending_one_short(coll, receiver_id, sender_id, limit) ==
    LET P == {i \in 1..Len(coll) : PendingQuery(coll[i], receiver_id, sender_id)}
        n == Min(limit - 1, Cardinality(P))
    IN  {{coll[i].keyId : i \in S} :
           S \in {T \in SUBSET P :
                    /\ Cardinality(T) = n
                    /\ \A a \in T, b \in P \ T :
                         coll[a].createdAt <= coll[b].createdAt}}

\* find_pending_for_receiver: the results the sorted, limited cursor can give,
\* each as the set of its keyIds (blocks of equal createdAt come in any order)
find_pending_for_receiver(coll, receiver_id, sender_id, limit) ==
    LET P == {i \in 1..Len(coll) : PendingQuery(coll[i], receiver_id, sender_id)}
        n == Min(limit, Cardinality(P))
    IN  {{coll[i].keyId : i \in S} :
           S \in {T \in SUBSET P :
                    /\ Cardinality(T) = n
                    /\ \A a \in T, b \in P \ T :
                         coll[a].createdAt <= coll[b].createdAt}}

\* count_pending without the deliveredToReceiver condition
count_stored(coll, receiver_id, sender_id) ==
    Cardinality({i \in 1..Len(coll) :
                   /\ coll[i].receiverId = receiver_id
                   /\ sender_id # NoId => coll[i].senderId = sender_id})

\* count_pending
count_pending(coll, receiver_id, sender_id) ==
    Cardinality({i \in 1..Len(coll) : PendingQuery(coll[i], receiver_id, sender_id)})

\* fetch_keys_by_ids with a find that does not filter on receiverId
fetch_find_any_receiver(coll, receiver_id, key_ids, sender_id) ==
    LET Hit(b) == /\ b.keyId \in Range(key_ids)
                  /\ sender_id # NoId => b.senderId = sender_id
        docs == SelectSeq(coll, Hit)
    IN  [i \in 1..Len(docs) |->
           [keyId |-> docs[i].keyId, keyData |-> docs[i].keyData,
            senderId |-> docs[i].senderId]]

\* fetch_keys_by_ids, the find: the documents of the receiver (and sender)
\* with a requested keyId, delivered or not
fetch_find(coll, receiver_id, key_ids, sender_id) ==
    LET Hit(b) == /\ b.keyId \in Range(key_ids)
                  /\ b.receiverId = receiver_id
                  /\ sender_id # NoId => b.senderId = sender_id
        docs == SelectSeq(coll, Hit)
    IN  [i \in 1..Len(docs) |->
           [keyId |-> docs[i].keyId, keyData |-> docs[i].keyData,
            senderId |-> docs[i].senderId]]

\* the update marking the keyIds of the requested list instead of the found ones
mark_requested(found_ids, key_ids) == Range(key_ids)

\* fetch_keys_by_ids, the keyIds of the update_many filter
mark_ids(found_ids, key_ids) == found_ids

\* $set deliveredToReceiver written as the negation of the stored flag
set_toggled(b) == [b EXCEPT !.deliveredToReceiver = ~@]

\* $set deliveredToReceiver: True
set_delivered(b) == [b EXCEPT !.deliveredToReceiver = TRUE]

\* update_many on the documents with a keyId of ids
update_many(coll, ids) ==
    [i \in 1..Len(coll) |->
       IF coll[i].keyId \in ids THEN set_delivered(coll[i]) ELSE coll[i]]

\* the keyIds a client can name: stored blocks whose request_pool has returned
Issued ==
    {id \in BlockIds(blocks) :
       \A t \in BulkThreads : bth[t].pc = "pool_insert" => id \notin Range(bth[t].key_ids)}

\* the handler of thread t returns response r
BulkReply(t, r) ==
    /\ bth' = [bth EXCEPT ![t] = BthIdle]
    /\ bresp' = [bresp EXCEPT ![t] = r]

\* request_key_pool up to bulk_insert: validation, then count blocks generated
\* with one createdAt (data[i] is the key material of the i-th block)
RequestKeyPool(t, sender_id, receiver_id, count, data) ==
    /\ bth[t].pc = "idle"
    /\ IF \/ sender_id = NoId
          \/ receiver_id = NoId
          \/ count < 1
          \/ count > MAX_BLOCKS_PER_REQUEST
       THEN /\ BulkReply(t, [op |-> "pool", status |-> 400])
            /\ UNCHANGED <<nextBlock, now>>
       ELSE /\ nextBlock + count - 1 <= MaxBlocks
            /\ bth' = [bth EXCEPT ![t] =
                 [BthIdle EXCEPT
                    !.pc = "pool_insert",
                    !.sender_id = sender_id,
                    !.receiver_id = receiver_id,
                    !.docs = [i \in 1..count |->
                                QkdBlock(nextBlock + i - 1, sender_id, receiver_id,
                                         data[i], now)],
                    !.key_ids = [i \in 1..count |-> nextBlock + i - 1]]]
            /\ bresp' = [bresp EXCEPT ![t] = NoBulkResp]
            /\ nextBlock' = nextBlock + count
            /\ now' \in {now, now + 1}
    /\ UNCHANGED <<blocks, fetched, poolVars, kmeVars, appVars>>

\* bulk_insert: insert_many stores the documents one after the other; after
\* the last one request_key_pool returns 201 with the keyIds
BulkInsert(t) ==
    /\ bth[t].pc = "pool_insert"
    /\ blocks' = Append(blocks, Head(bth[t].docs))
    /\ IF Len(bth[t].docs) = 1
       THEN BulkReply(t, [op |-> "pool", status |-> 201,
                          count |-> Len(bth[t].key_ids),
                          keyIds |-> bth[t].key_ids])
       ELSE /\ bth' = [bth EXCEPT ![t].docs = Tail(@)]
            /\ UNCHANGED bresp
    /\ UNCHANGED <<nextBlock, now, fetched, poolVars, kmeVars, appVars>>

\* get_pending_keys, the limit of the query (lines 220 and 228-229)
PendingLimit(limit) ==
    LET l == IF limit = NoLimit THEN DEFAULT_LIMIT ELSE limit
    IN  IF l < 1 \/ l > MAX_LIMIT THEN DEFAULT_LIMIT ELSE l

\* get_pending_keys up to find_pending_for_receiver
GetPendingKeys(t, receiver_id, sender_id, limit) ==
    /\ bth[t].pc = "idle"
    /\ IF receiver_id = NoId
       THEN BulkReply(t, [op |-> "pending", status |-> 400])
       ELSE /\ \E ids \in find_pending_for_receiver(blocks, receiver_id, sender_id,
                                                    PendingLimit(limit)) :
                 bth' = [bth EXCEPT ![t] =
                           [BthIdle EXCEPT !.pc = "pending_count",
                                           !.receiver_id = receiver_id,
                                           !.sender_id = sender_id,
                                           !.limit = limit,
                                           !.pending_ids = ids]]
            /\ bresp' = [bresp EXCEPT ![t] = NoBulkResp]
    /\ UNCHANGED <<blocks, nextBlock, now, fetched, poolVars, kmeVars, appVars>>

\* get_pending_keys from count_pending on: 200 with the count and the keyIds
PendingCount(t) ==
    /\ bth[t].pc = "pending_count"
    /\ BulkReply(t, [op |-> "pending", status |-> 200,
                     receiverId |-> bth[t].receiver_id,
                     pendingCount |-> count_pending(blocks, bth[t].receiver_id,
                                                    bth[t].sender_id),
                     pendingKeyIds |-> bth[t].pending_ids])
    /\ UNCHANGED <<blocks, nextBlock, now, fetched, poolVars, kmeVars, appVars>>

\* fetch_keys, the keyIds check without the test for an empty list
TooManyKeyIds(key_ids) == Len(key_ids) > MAX_BLOCKS_PER_REQUEST

\* fetch_keys, the keyIds check (lines 311 and 317)
BadKeyIds(key_ids) ==
    Len(key_ids) = 0 \/ Len(key_ids) > MAX_BLOCKS_PER_REQUEST

\* fetch_keys up to the find of fetch_keys_by_ids
FetchKeys(t, receiver_id, sender_id, key_ids) ==
    /\ bth[t].pc = "idle"
    /\ IF receiver_id = NoId \/ BadKeyIds(key_ids)
       THEN BulkReply(t, [op |-> "fetch", status |-> 400])
       ELSE /\ bth' = [bth EXCEPT ![t] =
                 [BthIdle EXCEPT !.pc = "fetch_mark",
                                 !.receiver_id = receiver_id,
                                 !.sender_id = sender_id,
                                 !.key_ids = key_ids,
                                 !.results = fetch_find(blocks, receiver_id,
                                                        key_ids, sender_id)]]
            /\ bresp' = [bresp EXCEPT ![t] = NoBulkResp]
    /\ UNCHANGED <<blocks, nextBlock, now, fetched, poolVars, kmeVars, appVars>>

\* the keyIds of a result list
ResultIds(results) == {results[i].keyId : i \in 1..Len(results)}

\* fetch_keys_by_ids from the update on, and the response of fetch_keys
FetchMark(t) ==
    LET results == bth[t].results
        found_ids == ResultIds(results)
        Missing(kid) == kid \notin found_ids
    IN  /\ bth[t].pc = "fetch_mark"
        /\ blocks' = IF found_ids # {}
                     THEN update_many(blocks, mark_ids(found_ids, bth[t].key_ids))
                     ELSE blocks
        /\ fetched' = [id \in 1..MaxBlocks |->
                         fetched[id] \cup {results[i].keyData :
                                             i \in {j \in 1..Len(results) :
                                                      results[j].keyId = id}}]
        /\ BulkReply(t, [op |-> "fetch", status |-> 200,
                         receiverId |-> bth[t].receiver_id, keys |-> results,
                         fetchedCount |-> Len(results),
                         missingKeyIds |-> SelectSeq(bth[t].key_ids, Missing)])
        /\ UNCHANGED <<nextBlock, now, poolVars, kmeVars, appVars>>

\* the requests of the bulk pool's clients
Counts == 0..(MAX_BLOCKS_PER_REQUEST + 1)
Limits == {NoLimit} \cup 0..(MAX_LIMIT + 1)
TooManyIds == [i \in 1..(MAX_BLOCKS_PER_REQUEST + 1) |-> FakeId]

\* the steps of thread t for requests with senderId of S, receiverId of R, a
\* senderId filter of F, a limit of L, key material of D and a keyIds list that
\* is of K or made of issued keyIds and those of X
BulkStepsOf(t, S, R, F, L, D, X, K) ==
    \/ \E sender_id \in S, receiver_id \in R, count \in Counts,
          data \in [1..MAX_BLOCKS_PER_REQUEST -> D] :
          RequestKeyPool(t, sender_id, receiver_id, count, data)
    \/ BulkInsert(t)
    \/ \E receiver_id \in R, sender_id \in F, limit \in L :
          GetPendingKeys(t, receiver_id, sender_id, limit)
    \/ PendingCount(t)
    \/ \E receiver_id \in R, sender_id \in F,
          key_ids \in SeqUpTo(Issued \cup X, MaxFetch) \cup K :
          FetchKeys(t, receiver_id, sender_id, key_ids)
    \/ FetchMark(t)

BulkSteps(t, R, F, L, D, X, K) ==
    BulkStepsOf(t, SenderIds \cup {NoId}, R, F, L, D, X, K)

\* one request at a time
BulkNext ==
    BulkSteps(1, ReceiverIds \cup {NoId}, SenderIds \cup {NoId}, Limits, KeyData,
              {FakeId}, {TooManyIds})

\* two requests handled at the same time: well-formed requests without senderId
\* filter and limit, for the keyIds issued
BulkConcNext ==
    \E t \in BulkThreads :
        BulkSteps(t, ReceiverIds, {NoId}, {NoLimit}, {"d0"}, {}, {})

\* one request at a time, of two senders, with and without senderId filter
OtherSenderIds == {"dave"}
BulkFilterNext ==
    BulkStepsOf(1, SenderIds \cup OtherSenderIds, ReceiverIds,
                SenderIds \cup OtherSenderIds \cup {NoId}, {NoLimit}, {"d0"},
                {FakeId}, {})

\* ------------------------------------------------------------------------
\* App (server/app.py): the stop events and the two daemon threads App.start
\* launches, the scanner loop and the key-pool worker.  pool_stop is the stop
\* event of the pool server object of the KME's own process
\* (get_shared_pool_server), which the worker of either role waits on.
\* ------------------------------------------------------------------------
\* qkd_pool_router is the module global _qkd_pool_router (0: None, else the
\* identity of the object), routers_created the number of QkdPoolRouter objects
\* constructed so far, getter[t] a handler thread inside get_qkd_pool_router.
\* The pool server singleton exists from App.__init__ on (create_pool_client).
AppInit ==
    app = [k \in KME |-> [stop_called |-> FALSE, scanner_stop |-> FALSE,
                          pool_stop |-> FALSE, scanner_thread |-> "running",
                          key_pool_thread |-> "running",
                          qkd_pool_router |-> 0, routers_created |-> 0,
                          getter |-> [t \in Threads |-> [pc |-> "idle", ret |-> 0]]]]

\* App.stop: the scanner's event is set; the pool server's event is set only
\* when KME_ID is "1"
AppStop(k) ==
    /\ ~app[k].stop_called
    /\ app' = [app EXCEPT ![k].stop_called = TRUE,
                          ![k].scanner_stop = TRUE,
                          ![k].pool_stop = IF k = 1 THEN TRUE ELSE @]
    /\ UNCHANGED <<poolVars, kmeVars, bulkVars>>

\* Scanner.start, one check of the loop condition: the loop ends when the
\* event is set, else the round probes peer o (ok: the probe succeeds)
ScannerStart(k, o, ok) ==
    /\ app[k].scanner_thread = "running"
    /\ o \in OtherKmes(k)
    /\ IF app[k].scanner_stop
       THEN /\ app' = [app EXCEPT ![k].scanner_thread = "stopped"]
            /\ UNCHANGED kme_list
       ELSE /\ kme_list' = [kme_list EXCEPT ![k] = IF ok THEN scan_kmes(@, o) ELSE @]
            /\ UNCHANGED app
    /\ UNCHANGED <<poolVars, container, net, th, resp, delivered, bulkVars>>

\* SharedKeyPoolClient.start, one check of the loop condition: on KME 1 the
\* start_generation loop, which refills the pool while the event is not set;
\* on KME 2 the idle loop, which only waits
KeyPoolStart(k) ==
    /\ app[k].key_pool_thread = "running"
    /\ IF app[k].pool_stop
       THEN /\ app' = [app EXCEPT ![k].key_pool_thread = "stopped"]
            /\ UNCHANGED poolVars
       ELSE /\ k = 1
            /\ RefillUpTo(MaxKeys)
            /\ UNCHANGED app
    /\ UNCHANGED <<kmeVars, bulkVars>>

\* get_qkd_pool_router, line 395: a route handler on thread t of KME k reads
\* the global and compares it with None
GetRouterBegin(k, t) ==
    /\ app[k].getter[t].pc = "idle"
    /\ app' = [app EXCEPT ![k].getter[t] =
                  [pc |-> IF app[k].qkd_pool_router = 0 THEN "create" ELSE "return",
                   ret |-> 0]]
    /\ UNCHANGED <<poolVars, kmeVars, bulkVars>>

\* line 396: a QkdPoolRouter is constructed and assigned to the global
GetRouterCreate(k, t) ==
    /\ app[k].getter[t].pc = "create"
    /\ app' = [app EXCEPT ![k].routers_created = @ + 1,
                          ![k].qkd_pool_router = app[k].routers_created + 1,
                          ![k].getter[t].pc = "return"]
    /\ UNCHANGED <<poolVars, kmeVars, bulkVars>>

\* line 397: the value of the global is returned
GetRouterReturn(k, t) ==
    /\ app[k].getter[t].pc = "return"
    /\ app' = [app EXCEPT ![k].getter[t] =
                  [pc |-> "idle", ret |-> app[k].qkd_pool_router]]
    /\ UNCHANGED <<poolVars, kmeVars, bulkVars>>

vars == <<poolVars, kmeVars, bulkVars, appVars>>

\* the shared pool of KME 1 with its callers alone
Refill == RefillUpTo(MaxIds)

PoolNext ==
    \/ \E count \in 1..MaxCount : AddKeysBatch(count) /\ UNCHANGED <<kmeVars, bulkVars, appVars>>
    \/ Refill /\ UNCHANGED <<kmeVars, bulkVars, appVars>>
    \/ \E t \in GkThreads, count \in 1..MaxCount, remove \in BOOLEAN :
          GetKeysCall(t, count, remove) /\ UNCHANGED <<kmeVars, bulkVars, appVars>>
    \/ \E t \in GkThreads : GetKeysWake(t) /\ UNCHANGED <<kmeVars, bulkVars, appVars>>
    \/ \E t \in GkThreads : GetKeysTimeout(t) /\ UNCHANGED <<kmeVars, bulkVars, appVars>>
    \/ \E key_id \in 1..MaxIds, remove \in BOOLEAN :
          GetKeyById(key_id, remove) /\ UNCHANGED <<kmeVars, bulkVars, appVars>>

PoolRestartNext ==
    \/ PoolNext
    \/ \E max \in 0..MAX_KEY_COUNT : Restart(max) /\ UNCHANGED <<kmeVars, bulkVars, appVars>>

\* enc_keys requests with every number from 0 to one above the maximum or
\* without number, and sizes inside and outside the bounds or without size, to
\* KME 1
AllNumbers == 0..(MAX_KEYS_PER_REQUEST + 1)
AllSizes == Sizes \cup {MIN_KEY_SIZE * 8 - 1, MAX_KEY_SIZE * 8 + 1}
EncBoundsNext ==
    \/ Generate
    \/ EncStepsOf(1, {1}, AllNumbers \cup {NoValue}, AllSizes \cup {NoValue})
    \/ \E m \in net : Deliver(m)
    \/ \E m \in net : Drop(m)

\* two requests handled at the same time by the threaded server of KME 1:
\* default-size enc_keys requests and dec_keys requests for the keys generated
ConcNext ==
    \/ Generate
    \/ \E t \in Threads :
          \/ EncSteps(t, {1}, {DEFAULT_KEY_SIZE * 8})
          \/ DecSteps(t, {1}, SeqUpTo(1..MaxKeys, 1))
    \/ \E m \in net : Deliver(m)
    \/ \E m \in net : Drop(m)

Init == PoolInit /\ KmeInit /\ BulkInit /\ AppInit
Spec == Init /\ [][Next]_vars

SpecPool == Init /\ [][PoolNext]_vars
SpecPoolRestart == Init /\ [][PoolRestartNext]_vars
SpecConc == Init /\ [][ConcNext]_vars
SpecBulk == Init /\ [][BulkNext]_vars
SpecBulkConc == Init /\ [][BulkConcNext]_vars
SpecEncBounds == Init /\ [][EncBoundsNext]_vars
\* the KMEs configured with MAX_KEY_COUNT = 0 or with the value used elsewhere
InitAnyCapacity ==
    /\ \E max \in {0, MAX_KEY_COUNT} : PoolStart(max)
    /\ KmeInit
    /\ BulkInit
    /\ AppInit
SpecEncCapacity == InitAnyCapacity /\ [][EncBoundsNext]_vars
SpecBulkFilter == Init /\ [][BulkFilterNext]_vars

\* ------------------------------------------------------------------------
\* Claims about the shared pool
\* ------------------------------------------------------------------------
PoolIds(k) == Ids(server[k].keys)
ReservedIds(k) == IdsOf(server[k].reserved_keys)
\* the key IDs the generator has handed out so far
Generated == 1..(nextId - 1)

\* C4: in every reachable state of the shared pool the pool list holds no two
\* keys with the same key_ID and no key_ID is both in the pool list and in the
\* reserved table; a key_ID that has left both structures is in neither of
\* them after any further step.
C4_PoolReservedDisjoint ==
    /\ [](NoDup(server[1].keys) /\ PoolIds(1) \cap ReservedIds(1) = {}
          /\ Cardinality(server[1].reserved_keys) = Cardinality(ReservedIds(1)))
    /\ [][\A id \in Generated :
            id \notin PoolIds(1) \cup ReservedIds(1)
            => id \notin PoolIds(1)' \cup ReservedIds(1)']_vars

\* a key in the pool list, another one reserved and a third one that has left
\* both structures
C4_Witness ==
    /\ server[1].keys # <<>>
    /\ server[1].reserved_keys # {}
    /\ \E id \in Generated : id \notin PoolIds(1) \cup ReservedIds(1)

\* C5: the number of keys in the pool list never exceeds MAX_KEY_COUNT, the
\* state right after rehydration from the snapshot file included.
C5_PoolWithinCapacity ==
    Len(server[1].keys) <= server[1].max_key_count

\* ------------------------------------------------------------------------
\* Claims about the delivery API
\* ------------------------------------------------------------------------
\* the key IDs stored under (M, S) in container c, and all of them in order
BucketIds(c, master_sae_id, slave_sae_id) ==
    UNION {Ids(c[i].keys) : i \in {j \in 1..Len(c) :
                                     Matches(c[j], master_sae_id, slave_sae_id)}}
RECURSIVE StoreKeys(_)
StoreKeys(c) == IF c = <<>> THEN <<>> ELSE Head(c).keys \o StoreKeys(Tail(c))

\* thread t returns from dec_keys with status 200 in this step
Dec200(t) ==
    /\ th[t].pc = "dec_reply"
    /\ th'[t].pc = "idle"
    /\ DecStatus(th[t].requested_keys, th[t].selected_keys) = 200

\* C1: a key is redeemed at most once: no key_ID is contained in more than
\* one 200 dec_keys response, whatever enc_keys, dec_keys and replication
\* deliveries occur (a repeated dec_keys call for it returns 404).
C1_RedeemedAtMostOnce ==
    \A id \in 1..MaxKeys : delivered[id] <= 1

\* C2: after a full-match dec_keys(master M) issued by slave S none of the
\* returned key_IDs is in bucket (M, S) or (S, M) of the local key store,
\* every key not returned is still stored, and a removal event with exactly
\* the returned keys is sent to every configured peer.
C2_FullMatchConsumes ==
    [][\A t \in Threads :
         Dec200(t) =>
           LET k == th[t].kme
               M == th[t].master_sae_id
               S == th[t].slave_sae_id
               returned == Ids(th[t].selected_keys)
           IN  /\ returned \cap (BucketIds(container'[k], M, S)
                                 \cup BucketIds(container'[k], S, M)) = {}
               /\ Ids(StoreKeys(container[k])) \ returned
                     \subseteq Ids(StoreKeys(container'[k]))
               /\ net' \ net = Broadcast(k, "remove", M, S, th[t].selected_keys)
      ]_vars

\* C3: of two dec_keys requests naming the same key_ID that one KME handles
\* concurrently at most one returns that key with status 200.
C3_ConcurrentDecOneWinner ==
    [][\A t \in Threads :
         Dec200(t) => Ids(th[t].selected_keys) \cap th[t].seen = {}]_vars

Undelivered(coll, receiver_id) ==
    {coll[i].keyId : i \in {j \in 1..Len(coll) :
                              /\ coll[j].receiverId = receiver_id
                              /\ ~coll[j].deliveredToReceiver}}
\* the keyIds of the stored blocks addressed to receiver_id
BlocksOf(coll, receiver_id) ==
    {coll[i].keyId : i \in {j \in 1..Len(coll) : coll[j].receiverId = receiver_id}}

\* thread t runs the find of get_pending(receiver) with the default limit
PendingFind(t) ==
    /\ bth[t].pc = "idle"
    /\ bth'[t].pc = "pending_count"
    /\ bth'[t].limit = NoLimit
    /\ bth'[t].sender_id = NoId
\* thread t returns from get_pending / from fetch in this step
PendingReturn(t) == bth[t].pc = "pending_count" /\ bth'[t].pc = "idle"
FetchReturn(t) == bth[t].pc = "fetch_mark" /\ bth'[t].pc = "idle"

\* a fetch of the receiver's own blocks returns one block for each keyId named
\* and reports none as missing
FetchReturnsAll ==
    \A t \in BulkThreads :
        (/\ FetchReturn(t)
         /\ bth[t].sender_id = NoId
         /\ Range(bth[t].key_ids) \subseteq BlocksOf(blocks, bth[t].receiver_id))
        => /\ bresp'[t].fetchedCount = Cardinality(Range(bth[t].key_ids))
           /\ bresp'[t].missingKeyIds = <<>>

\* the round trip as stated for every N up to MAX_BLOCKS_PER_REQUEST: the
\* default get_pending(receiver) lists every issued block of the receiver that
\* is not fetched yet, and fetch returns all of them
C7_RoundTripAnyCount ==
    [][/\ \A t \in BulkThreads :
            PendingFind(t) =>
              Undelivered(blocks, bth'[t].receiver_id) \cap Issued
                 \subseteq bth'[t].pending_ids
       /\ FetchReturnsAll]_vars

\* C7: after request_pool(sender, receiver, N) returned the key IDs K, a
\* get_pending(receiver) with the default limit lists every ID of K, provided
\* the receiver has at most the default limit of undelivered blocks stored at
\* that time, and a following fetch(receiver, K) returns exactly |K| blocks
\* with an empty missingKeyIds.
C7_RoundTripWithinLimit ==
    [][/\ \A t \in BulkThreads :
            (/\ PendingFind(t)
             /\ Cardinality(Undelivered(blocks, bth'[t].receiver_id)) <= DEFAULT_LIMIT)
            => Undelivered(blocks, bth'[t].receiver_id) \cap Issued
                  \subseteq bth'[t].pending_ids
       /\ FetchReturnsAll]_vars

\* get_pending(receiver) with the default limit has found the receiver's
\* undelivered block and is about to report it
C7_Witness ==
    \E t \in BulkThreads :
        /\ bth[t].pc = "pending_count"
        /\ bth[t].limit = NoLimit
        /\ bth[t].sender_id = NoId
        /\ bth[t].pending_ids # {}
        /\ bth[t].pending_ids = Undelivered(blocks, bth[t].receiver_id)

\* C8: deliveredToReceiver of a stored block only changes from false to true,
\* keyId and keyData of a stored block never change, two fetch calls return
\* the same keyData for a key ID and a fetch of a delivered block leaves its
\* flag at true.
C8_DeliveredOnceDataFixed ==
    /\ [][/\ Len(blocks') >= Len(blocks)
          /\ \A i \in 1..Len(blocks) :
                /\ blocks'[i].keyId = blocks[i].keyId
                /\ blocks'[i].keyData = blocks[i].keyData
                /\ blocks[i].deliveredToReceiver => blocks'[i].deliveredToReceiver]_vars
    /\ [](\A id \in 1..MaxBlocks : Cardinality(fetched[id]) <= 1)

\* a fetch has read a block that an earlier fetch marked delivered
C8_Witness ==
    \E t \in BulkThreads :
        /\ bth[t].pc = "fetch_mark"
        /\ \E i \in 1..Len(blocks) :
              /\ blocks[i].deliveredToReceiver
              /\ blocks[i].keyId \in ResultIds(bth[t].results)
              /\ fetched[blocks[i].keyId] # {}

\* C9: the pendingCount reported by get_pending(r) is the number of stored
\* blocks with receiverId r that are undelivered; that number decreases only
\* in a fetch of r, by the number of blocks the fetch returned that were
\* undelivered before, and get_pending changes no block.
C9_PendingCountExact ==
    [][/\ \A t \in BulkThreads :
            (PendingReturn(t) /\ bth[t].sender_id = NoId)
            => bresp'[t].pendingCount
                  = Cardinality(Undelivered(blocks, bth[t].receiver_id))
       /\ \A t \in BulkThreads :
            (bth[t].pc = "pending_count" \/ bth'[t].pc = "pending_count")
            => blocks' = blocks
       /\ \A r \in ReceiverIds :
            Cardinality(Undelivered(blocks', r)) < Cardinality(Undelivered(blocks, r))
            => \E t \in BulkThreads :
                  /\ FetchReturn(t)
                  /\ bth[t].receiver_id = r
                  /\ Cardinality(Undelivered(blocks, r))
                        - Cardinality(Undelivered(blocks', r))
                     = Cardinality(ResultIds(bth[t].results)
                                   \cap Undelivered(blocks, r))]_vars

\* get_pending(r) reports one pending block after a fetch consumed the other
\* block of r
C9_Witness ==
    \E t \in BulkThreads :
        /\ bresp[t].op = "pending"
        /\ bresp[t].status = 200
        /\ bresp[t].pendingCount = 1
        /\ Cardinality(BlocksOf(blocks, bresp[t].receiverId)) = 2
        /\ Cardinality(Undelivered(blocks, bresp[t].receiverId)) = 1

\* the keyIds of the blocks whose delivered flag differs between two contents
\* of the collection
Flipped(old, new) ==
    {old[i].keyId : i \in {j \in 1..Len(old) :
                             old[j].deliveredToReceiver # new[j].deliveredToReceiver}}
DeliveredIds(coll) ==
    {coll[i].keyId : i \in {j \in 1..Len(coll) : coll[j].deliveredToReceiver}}

\* C10: under any interleaving of concurrent fetch and request_pool calls the
\* blocks a fetch marks delivered are the blocks that call returns: after its
\* update every returned block is delivered and no other block has changed its
\* flag; no block is delivered without having been returned by some fetch.
C10_MarkedEqualsReturned ==
    /\ [][\A t \in BulkThreads :
            FetchReturn(t) =>
              /\ ResultIds(bth[t].results) \subseteq DeliveredIds(blocks')
              /\ Flipped(blocks, blocks') \subseteq ResultIds(bth[t].results)
              /\ ResultIds(bresp'[t].keys) = ResultIds(bth[t].results)]_vars
    /\ [][(\A t \in BulkThreads : ~FetchReturn(t))
            => /\ Len(blocks') >= Len(blocks)
               /\ Flipped(blocks, blocks') = {}]_vars
    /\ [](\A id \in DeliveredIds(blocks) : fetched[id] # {})

\* a fetch that has read an undelivered block is about to mark it while the
\* other thread is storing the block of a request_pool
C10_Witness ==
    \E t, u \in BulkThreads :
        /\ bth[t].pc = "fetch_mark"
        /\ ResultIds(bth[t].results) \ DeliveredIds(blocks) # {}
        /\ bth[u].pc = "pool_insert"

\* C11: fetch(receiverId r, optional senderId s, keyIds) returns and marks
\* delivered only blocks whose receiverId is r (and whose senderId is s when s
\* is given); a requested ID of another block is reported in missingKeyIds,
\* and the returned keyIds and missingKeyIds together are the requested IDs,
\* without overlap.
C11_FetchOnlyOwnBlocks ==
    [][\A t \in BulkThreads :
         FetchReturn(t) =>
           LET r == bth[t].receiver_id
               s == bth[t].sender_id
               requested == Range(bth[t].key_ids)
               returned == ResultIds(bresp'[t].keys)
               missing == Range(bresp'[t].missingKeyIds)
               Own(b) == b.receiverId = r /\ (s # NoId => b.senderId = s)
           IN  /\ \A i \in 1..Len(blocks) :
                     blocks[i].keyId \in returned \cup Flipped(blocks, blocks')
                     => Own(blocks[i])
               /\ \A i \in 1..Len(blocks) :
                     (blocks[i].keyId \in requested /\ ~Own(blocks[i]))
                     => blocks[i].keyId \in missing
               /\ returned \cup missing = requested
               /\ returned \cap missing = {}]_vars

\* a fetch has returned a block of its receiver and reported the stored block
\* of another receiver or sender as missing
C11_Witness ==
    \E t \in BulkThreads :
        /\ bresp[t].op = "fetch"
        /\ bresp[t].status = 200
        /\ bresp[t].keys # <<>>
        /\ Range(bresp[t].missingKeyIds) \cap BlockIds(blocks) # {}

\* ------------------------------------------------------------------------
\* Claims about the boundaries of the delivery API
\* ------------------------------------------------------------------------
\* C12: enc_keys with number = 0 or number > MAX_KEYS_PER_REQUEST is rejected
\* with status 400, and the rejected request changes neither the key store
\* nor the shared pool and sends no broadcast.
C12_BadNumberRejected ==
    [][\A t \in Threads, k \in KME, slave_sae_id \in SAE, size \in Sizes,
          number \in {0, MAX_KEYS_PER_REQUEST + 1} :
         EncBegin(t, k, slave_sae_id, "POST", number, size)
         => /\ resp'[t] = [op |-> "enc", status |-> 400]
            /\ th'[t].pc = "idle"
            /\ UNCHANGED <<container, server, pool_file, net>>]_vars

EncShort(t) ==
    /\ th[t].pc = "enc_loop"
    /\ th'[t].pc = "idle"
    /\ Len(th[t].keys) < th[t].number_of_keys

\* C14: enc_keys returns 503 whenever the pool cannot supply all requested
\* default-size keys in time; with MAX_KEY_COUNT = 0 an enc_keys call for one
\* default-size key returns 503.
C14_NoKeysGives503 ==
    [][\A t \in Threads :
         /\ EncShort(t) => resp'[t] = [op |-> "enc", status |-> 503]
         /\ \A k \in KME, slave_sae_id \in SAE :
              (/\ server[k].max_key_count = 0
               /\ EncBegin(t, k, slave_sae_id, "POST", 1, DEFAULT_KEY_SIZE * 8))
              => /\ th'[t].pc = "enc_loop"
                 /\ resp'[t].status # 400]_vars

\* thread t returns from dec_keys in this step
DecReturn(t) == th[t].pc = "dec_reply" /\ th'[t].pc = "idle"

\* C15: a dec_keys request with pairwise distinct key_IDs of which some but
\* not all are found returns 206 with exactly the found keys, removes nothing
\* from the key store and broadcasts nothing; a request of which none is found
\* returns 404.
C15_PartialMatch206 ==
    [][\A t \in Threads :
         DecReturn(t) =>
           LET requested == Range(th[t].requested_keys)
               found == Ids(th[t].selected_keys)
           IN  /\ (/\ Cardinality(requested) = Len(th[t].requested_keys)
                   /\ found # {}
                   /\ found # requested)
                  => /\ resp'[t] = [op |-> "dec", status |-> 206]
                     /\ Len(th[t].selected_keys) = Cardinality(found)
                     /\ container' = container
                     /\ net' = net
               /\ found = {}
                  => /\ resp'[t] = [op |-> "dec", status |-> 404]
                     /\ container' = container
                     /\ net' = net]_vars

\* the keys a handler thread holds, a key store holds or a broadcast carries
\* whose size is not the default one
OtherSizeKeys ==
    {x \in UNION ({Range(th[t].keys) : t \in Threads}
                  \cup {Range(StoreKeys(container[k])) : k \in KME}
                  \cup {Range(m.keys) : m \in net}) : x.size # DEFAULT_KEY_SIZE}

\* C16: when the requested size in bits differs from DEFAULT_KEY_SIZE*8 the
\* pool client returns a freshly generated key and leaves the pool list, the
\* reserved table and the pool statistics unchanged; get_key_by_id never finds
\* the key_ID of such a key on either KME, and a key store of the peer gets it
\* only from the exchange broadcast.
C16_OtherSizeBypassesPool ==
    /\ [][\A t \in Threads :
            (/\ th[t].pc = "enc_loop"
             /\ th[t].key_size # DEFAULT_KEY_SIZE * 8
             /\ th'[t].pc = "enc_loop"
             /\ th'[t].keys # th[t].keys)
            => /\ server' = server
               /\ pool_file' = pool_file
               /\ \E key \in OtherSizeKeys' \ OtherSizeKeys :
                     /\ th'[t].keys = Append(th[t].keys, key)
                     /\ key.key_ID \notin Generated
                     /\ key.size * 8 = th[t].key_size]_vars
    /\ [](\A key \in OtherSizeKeys, k \in KME :
             get_key_by_id(server[k], pool_file[k], key.key_ID, TRUE).ret = None)
    /\ [][\A key \in OtherSizeKeys', k \in KME :
            (key \in Range(StoreKeys(container'[k]))
             /\ key \notin Range(StoreKeys(container[k])))
            => \/ \E t \in Threads : th[t].kme = k /\ key \in Range(th[t].keys)
               \/ \E m \in net : /\ m.to = k
                                 /\ m.url = "exchange"
                                 /\ key \in Range(m.keys)
                                 /\ net' = net \ {m}]_vars

\* a key of another size was issued by enc_keys and has reached the key store
\* of the peer
C16_Witness ==
    \E key \in OtherSizeKeys :
        \A k \in KME : key \in Range(StoreKeys(container[k]))

\* C17: an enc_keys request that supplies neither number nor size, sent with
\* GET or with POST, requests exactly one key of DEFAULT_KEY_SIZE*8 bits: it
\* passes the size-bound check (MIN_KEY_SIZE <= DEFAULT_KEY_SIZE <=
\* MAX_KEY_SIZE) and its key is taken from the shared pool.
C17_DefaultsOneDefaultSizeKey ==
    [][\A t \in Threads, k \in KME, slave_sae_id \in SAE, method \in Methods :
         (/\ MIN_KEY_SIZE <= DEFAULT_KEY_SIZE
          /\ DEFAULT_KEY_SIZE <= MAX_KEY_SIZE
          /\ Len(get_keys(container[k], EncMaster(k, slave_sae_id), slave_sae_id)) + 1
                <= server[k].max_key_count
          /\ EncBegin(t, k, slave_sae_id, method, NoValue, NoValue))
         => /\ th'[t].pc = "enc_loop"
            /\ th'[t].number_of_keys = 1
            /\ th'[t].key_size = DEFAULT_KEY_SIZE * 8
            /\ ~OutsidePool(th'[t].key_size)]_vars

\* ------------------------------------------------------------------------
\* Discovery: the scanner thread of each KME (network/scanner.py) and the
\* status request of the delivery API.
\* ------------------------------------------------------------------------
\* Scanner.start, one round of KME k: _scan_kmes probes each configured peer o;
\* a probe that succeeds (ok) upserts the directory, a failed one leaves it
Scan(k, o, ok) ==
    /\ o \in OtherKmes(k)
    /\ kme_list' = [kme_list EXCEPT ![k] = IF ok THEN scan_kmes(@, o) ELSE @]
    /\ UNCHANGED <<poolVars, container, net, th, resp, delivered, bulkVars, appVars>>

\* External.get_status after the security check: 400 when find_kme returns
\* None, else the status block
get_status(t, k, slave_sae_id) ==
    /\ th[t].pc = "idle"
    /\ LET kme == find_kme(kme_list[k], slave_sae_id)
       IN  resp' = [resp EXCEPT ![t] =
                       [op |-> "status",
                        status |-> IF kme.KME_ID = 0 THEN 400 ELSE 200]]
    /\ UNCHANGED <<poolVars, container, kme_list, net, th, delivered, bulkVars, appVars>>

\* both scanners run, probes succeed or fail; status and enc_keys requests
\* for default-size keys reach either KME
ScanNext ==
    \/ \E k \in KME, o \in KME, ok \in BOOLEAN : Scan(k, o, ok)
    \/ \E k \in KME, slave_sae_id \in SAE : get_status(1, k, slave_sae_id)
    \/ Generate
    \/ EncStepsOf(1, KME, {1}, {DEFAULT_KEY_SIZE * 8})
    \/ \E m \in net : Deliver(m)
    \/ \E m \in net : Drop(m)

SpecScan == Init /\ [][ScanNext]_vars

\* the scanner loop keeps running and the peer stays reachable: a probe that
\* would change the directory is eventually made and answered
SpecScanFair ==
    SpecScan /\ \A k \in KME : WF_vars(Scan(k, Peer(k), TRUE))

\* the peer directory of KME k has an entry with that SAE ID
Known(k, sae_id) == \E i \in 1..Len(kme_list[k]) : kme_list[k][i].SAE_ID = sae_id

\* C18: status(slave_sae_id) returns 400 as long as no peer-directory entry
\* has that SAE ID and 200 once a probe of the peer attached to that SAE has
\* succeeded: one successful probe of the peer puts its SAE in the directory,
\* the entry stays, and with a reachable peer the probe eventually happens.
C18_StatusFollowsDirectory ==
    /\ [][/\ \A t \in Threads, k \in KME, slave_sae_id \in SAE :
               get_status(t, k, slave_sae_id)
               => resp'[t] = [op |-> "status",
                              status |-> IF Known(k, slave_sae_id)
                                         THEN 200 ELSE 400]
          /\ \A k \in KME, o \in KME :
               Scan(k, o, TRUE) => Known(k, AttachedSae(o))'
          /\ \A k \in KME, sae_id \in SAE :
               /\ Known(k, sae_id) => Known(k, sae_id)'
               /\ (~Known(k, sae_id) /\ Known(k, sae_id)')
                  => \E o \in OtherKmes(k) :
                        Scan(k, o, TRUE) /\ sae_id = AttachedSae(o)]_vars
    /\ \A k \in KME : <>[]Known(k, AttachedSae(Peer(k)))

\* a status request was answered 200 for the SAE of a discovered peer while
\* the other KME has discovered nothing yet
C18_Witness ==
    /\ resp[1] = [op |-> "status", status |-> 200]
    /\ Known(1, "B")
    /\ ~Known(2, "A")

\* ------------------------------------------------------------------------
\* The delivery API with its security check (server/security.py) and the
\* mark_consumed request.  USE_HTTPS is read from the environment on every
\* request; client_cert says whether the request came with a certificate.
\* ------------------------------------------------------------------------
\* security.ensure_valid_sae_id: TRUE when the request passes, FALSE when it
\* is aborted with 401.  A common name that differs does not abort.
ensure_valid_sae_id(use_https, client_cert) == ~use_https \/ client_cert

\* flask.abort(401) in the handler of thread t
Abort(t, op) ==
    /\ th[t].pc = "idle"
    /\ resp' = [resp EXCEPT ![t] = [op |-> op, status |-> 401]]
    /\ UNCHANGED <<poolVars, container, kme_list, net, th, delivered, bulkVars, appVars>>

\* External.mark_consumed: the key is looked up in and removed from the pool
\* server of this process (get_shared_pool_server)
mark_consumed(t, k, key_id) ==
    /\ th[t].pc = "idle"
    /\ IF key_id = NoValue
       THEN /\ resp' = [resp EXCEPT ![t] = [op |-> "mark_consumed", status |-> 400]]
            /\ UNCHANGED <<server, pool_file>>
       ELSE LET r == get_key_by_id(server[k], pool_file[k], key_id, TRUE)
            IN  /\ server' = [server EXCEPT ![k] = r.srv]
                /\ pool_file' = [pool_file EXCEPT ![k] = r.file]
                /\ resp' = [resp EXCEPT ![t] =
                               [op |-> "mark_consumed",
                                status |-> IF r.ret = None THEN 404 ELSE 200]]
    /\ UNCHANGED <<nextId, gk, container, kme_list, net, th, delivered, bulkVars, appVars>>

\* the four delivery requests as they arrive at KME k
StatusRequest(t, k, slave_sae_id, use_https, client_cert) ==
    IF ensure_valid_sae_id(use_https, client_cert)
    THEN get_status(t, k, slave_sae_id)
    ELSE Abort(t, "status")

EncRequest(t, k, slave_sae_id, method, number, size, use_https, client_cert) ==
    IF ensure_valid_sae_id(use_https, client_cert)
    THEN EncBegin(t, k, slave_sae_id, method, number, size)
    ELSE Abort(t, "enc")

DecRequest(t, k, master_sae_id, slave_sae_id, method, key_id_params, use_https, client_cert) ==
    IF ensure_valid_sae_id(use_https, client_cert)
    THEN DecBegin(t, k, master_sae_id, slave_sae_id, method, key_id_params)
    ELSE Abort(t, "dec")

MarkConsumedRequest(t, k, key_id, use_https, client_cert) ==
    mark_consumed(t, k, key_id)

\* key_id values of mark_consumed requests: absent, unknown, or a generated id
ConsumeIds == {NoValue, FakeId} \cup 1..MaxKeys

\* one request at a time to either KME, in HTTP or HTTPS mode, with or
\* without a client certificate
SecureNext ==
    \/ Generate
    \/ \E k \in KME, slave_sae_id \in SAE, use_https \in BOOLEAN, client_cert \in BOOLEAN :
          StatusRequest(1, k, slave_sae_id, use_https, client_cert)
    \/ \E k \in KME, slave_sae_id \in SAE, use_https \in BOOLEAN, client_cert \in BOOLEAN :
          EncRequest(1, k, slave_sae_id, "POST", 1, DEFAULT_KEY_SIZE * 8,
                     use_https, client_cert)
    \/ EncTake(1)
    \/ EncTimeout(1)
    \/ EncReply(1)
    \/ \E k \in KME, master_sae_id \in SAE, slave_sae_id \in SAE,
          key_id_params \in KeyIdParams, use_https \in BOOLEAN, client_cert \in BOOLEAN :
          DecRequest(1, k, master_sae_id, slave_sae_id, "POST", key_id_params,
                     use_https, client_cert)
    \/ \E ok \in BOOLEAN : DecPool(1, ok)
    \/ DecReply(1)
    \/ \E k \in KME, key_id \in ConsumeIds, use_https \in BOOLEAN, client_cert \in BOOLEAN :
          MarkConsumedRequest(1, k, key_id, use_https, client_cert)
    \/ \E m \in net : Deliver(m)
    \/ \E m \in net : Drop(m)

SpecSecure == Init /\ [][SecureNext]_vars

\* the request of thread t was answered 401 and left the key stores and the
\* pools as they were
Rejected401(t, op) ==
    /\ resp'[t] = [op |-> op, status |-> 401]
    /\ UNCHANGED <<container, server, pool_file>>

\* C19: each of status, enc_keys, dec_keys and mark_consumed runs the security
\* check first: in HTTPS mode a request without a client certificate is
\* answered 401 and leaves the key store and the shared pool unchanged.
C19_NoCertificate401 ==
    [][\A t \in Threads, k \in KME, slave_sae_id \in SAE :
         /\ StatusRequest(t, k, slave_sae_id, TRUE, FALSE)
            => Rejected401(t, "status")
         /\ EncRequest(t, k, slave_sae_id, "POST", 1, DEFAULT_KEY_SIZE * 8, TRUE, FALSE)
            => Rejected401(t, "enc")
         /\ \A master_sae_id \in SAE, key_id_params \in KeyIdParams :
               DecRequest(t, k, master_sae_id, slave_sae_id, "POST", key_id_params,
                          TRUE, FALSE)
               => Rejected401(t, "dec")
         /\ \A key_id \in ConsumeIds :
               MarkConsumedRequest(t, k, key_id, TRUE, FALSE)
               => Rejected401(t, "mark_consumed")]_vars

\* C20: mark_consumed(key_id) for a key that enc_keys has reserved in the
\* shared pool removes it from the shared pool (pool list and reserved table)
\* and returns 200, on either KME; for a key_id in neither structure it
\* returns 404 and changes nothing.
C20_MarkConsumedRemoves ==
    [][\A t \in Threads, k \in KME, key_id \in ConsumeIds \ {NoValue} :
         mark_consumed(t, k, key_id)
         => IF key_id \in ReservedIds(1)
            THEN /\ resp'[t] = [op |-> "mark_consumed", status |-> 200]
                 /\ key_id \notin (PoolIds(1) \cup ReservedIds(1))'
            ELSE key_id \notin PoolIds(1)
                 => /\ resp'[t] = [op |-> "mark_consumed", status |-> 404]
                    /\ UNCHANGED <<server, pool_file, container, net>>]_vars

\* ------------------------------------------------------------------------
\* Concurrent enc_keys requests against a small MAX_KEY_COUNT
\* ------------------------------------------------------------------------
\* key IDs the key generator hands out in a run of concurrent enc_keys requests
MaxConcKeys == 2

\* both KMEs configured with MAX_KEY_COUNT = 1
InitCapacityOne == PoolStart(1) /\ KmeInit /\ BulkInit /\ AppInit

\* two handler threads of KME 1 serve enc_keys requests for keys of a
\* non-default size (generated outside the pool)
EncConcNext ==
    \/ \E t \in Threads, slave_sae_id \in SAE, number \in Numbers :
          EncBegin(t, 1, slave_sae_id, "POST", number, OtherSizeBits)
    \/ \E t \in Threads : EncTakeUpTo(t, MaxConcKeys)
    \/ \E t \in Threads : EncReply(t)
    \/ \E m \in net : Deliver(m)
    \/ \E m \in net : Drop(m)

SpecEncConc == InitCapacityOne /\ [][EncConcNext]_vars

\* C21: enc_keys is rejected with 400 when the keys already stored in bucket
\* (M,S) plus number exceed MAX_KEY_COUNT, so that after any sequence of
\* enc_keys requests, concurrent ones included, no bucket of the serving KME
\* holds more than MAX_KEY_COUNT keys.
C21_BucketWithinMaxKeyCount ==
    \A i \in 1..Len(container[1]) :
        Len(container[1][i].keys) <= server[1].max_key_count

\* External.get_status, lines 16-21: the master of the pair a 200 status
\* response reports
StatusMaster(k, slave_sae_id) ==
    LET kme == find_kme(kme_list[k], slave_sae_id)
        is_this_sae_slave == slave_sae_id = AttachedSae(k)
    IN  IF is_this_sae_slave THEN kme.SAE_ID ELSE AttachedSae(k)

\* the pair (M, S) for a request to KME k that names slave_sae_id: the peer's
\* SAE and this node's SAE when the slave is this node's SAE, else this
\* node's SAE and the slave
PairMaster(k, slave_sae_id) ==
    IF slave_sae_id = AttachedSae(k) THEN AttachedSae(Peer(k)) ELSE AttachedSae(k)

\* C22: enc_keys and status choose the bucket pair (M,S) as follows: if
\* slave_sae_id is this node's attached SAE then M is the peer's SAE ID and S
\* is this node's SAE ID, otherwise M is this node's attached SAE ID and S is
\* slave_sae_id; in both cases M differs from S.
C22_PairOfSlave ==
    [][\A t \in Threads, k \in KME, slave_sae_id \in SAE :
         /\ (/\ EncBegin(t, k, slave_sae_id, "POST", 1, DEFAULT_KEY_SIZE * 8)
             /\ th'[t].pc = "enc_loop")
            => /\ th'[t].master_sae_id = PairMaster(k, slave_sae_id)
               /\ th'[t].slave_sae_id = slave_sae_id
               /\ th'[t].master_sae_id # th'[t].slave_sae_id
         /\ (/\ get_status(t, k, slave_sae_id)
             /\ resp'[t].status = 200)
            => /\ StatusMaster(k, slave_sae_id) = PairMaster(k, slave_sae_id)
               /\ StatusMaster(k, slave_sae_id) # slave_sae_id]_vars

\* ------------------------------------------------------------------------
\* The bulk pool with write errors in insert_many
\* ------------------------------------------------------------------------
\* bulk_insert when insert_many(ordered=False) meets a write error: the
\* document at hand is not stored (stored = FALSE starts the failure), the
\* other documents of the batch are stored or not, and insert_many raises at
\* the end of the batch; bulk_insert catches the exception and returns 0, so
\* request_key_pool answers 201 with count 0 and key_ids[:0]
BulkInsertError(t, stored) ==
    /\ bth[t].pc \in {"pool_insert", "pool_insert_err"}
    /\ bth[t].pc = "pool_insert" => ~stored
    /\ blocks' = IF stored THEN Append(blocks, Head(bth[t].docs)) ELSE blocks
    /\ IF Len(bth[t].docs) = 1
       THEN BulkReply(t, [op |-> "pool", status |-> 201, count |-> 0,
                          keyIds |-> <<>>])
       ELSE /\ bth' = [bth EXCEPT ![t].docs = Tail(@), ![t].pc = "pool_insert_err"]
            /\ UNCHANGED bresp
    /\ UNCHANGED <<nextBlock, now, fetched, poolVars, kmeVars, appVars>>

\* one request_pool or pending request at a time; a batch insert may fail
BulkFailNext ==
    \/ \E sender_id \in SenderIds, receiver_id \in ReceiverIds, count \in Counts,
          data \in [1..MAX_BLOCKS_PER_REQUEST -> KeyData] :
          RequestKeyPool(1, sender_id, receiver_id, count, data)
    \/ BulkInsert(1)
    \/ \E stored \in BOOLEAN : BulkInsertError(1, stored)
    \/ \E receiver_id \in ReceiverIds, limit \in {NoLimit, MAX_LIMIT} :
          GetPendingKeys(1, receiver_id, NoId, limit)
    \/ PendingCount(1)

SpecBulkFail == Init /\ [][BulkFailNext]_vars

\* the request_pool request of thread t returns
PoolReturn(t) ==
    /\ bth[t].pc \in {"pool_insert", "pool_insert_err"}
    /\ bth'[t].pc = "idle"

\* C23: a 201 response of request_pool reports exactly the blocks that the
\* request durably stored: count equals the length of keyIds, every returned
\* keyId is stored as an undelivered block with the given senderId and
\* receiverId, and every block stored by the request is in keyIds, also when
\* the unordered batch insert succeeds for only part of the batch.
C23_Reports201WhatIsStored ==
    [][\A t \in BulkThreads :
         (PoolReturn(t) /\ bresp'[t].status = 201)
         => /\ bresp'[t].count = Len(bresp'[t].keyIds)
            /\ \A id \in Range(bresp'[t].keyIds) :
                 \E i \in 1..Len(blocks') :
                    /\ blocks'[i].keyId = id
                    /\ ~blocks'[i].deliveredToReceiver
                    /\ blocks'[i].senderId = bth[t].sender_id
                    /\ blocks'[i].receiverId = bth[t].receiver_id
            /\ Range(bth[t].key_ids) \cap BlockIds(blocks')
                 \subseteq Range(bresp'[t].keyIds)]_vars

\* the keys the get_keys call of thread t gathers in a step
NewlyRetrieved(t) == Range(gk'[t].keys_retrieved) \ Range(gk[t].keys_retrieved)

\* the step is one of the get_keys call of thread t that goes on gathering
GetKeysGathers(t) ==
    /\ gk'[t].pc # gk[t].pc \/ gk'[t].keys_retrieved # gk[t].keys_retrieved
    /\ gk[t].pc = "idle" => gk'[t].keys_retrieved # <<>>
    /\ gk[t].pc = "waiting" => gk'[t].keys_retrieved # gk[t].keys_retrieved

\* C24: get_keys(count, remove) returns at most count keys with pairwise
\* distinct key_IDs, and no key is returned to two get_keys calls, concurrent
\* ones included (a key a call gathers comes out of the pool list, and only
\* fresh key_IDs enter the pool list); with remove=false every returned key
\* has been moved from the pool list into the reserved table, with remove=true
\* it is in neither structure and total_retrieved grew by the number returned;
\* with the pool empty a waiting call can time out, and then returns the keys
\* gathered so far.
C24_GetKeysExclusive ==
    /\ [](\A t \in GkThreads :
            /\ Len(gk[t].keys_retrieved) <= gk[t].count
            /\ NoDup(gk[t].keys_retrieved)
            /\ \A u \in GkThreads \ {t} :
                 Ids(gk[t].keys_retrieved) \cap Ids(gk[u].keys_retrieved) = {}
            /\ (gk[t].pc = "waiting" /\ server[1].keys = <<>>)
               => ENABLED GetKeysTimeout(t))
    /\ [][/\ PoolIds(1)' \ PoolIds(1) \subseteq nextId..(nextId' - 1)
          /\ \A t \in GkThreads :
               /\ GetKeysGathers(t)
                  => /\ NewlyRetrieved(t) \subseteq Range(server[1].keys)
                     /\ IdsOf(NewlyRetrieved(t)) \cap PoolIds(1)' = {}
                     /\ IF gk'[t].remove
                        THEN /\ IdsOf(NewlyRetrieved(t)) \cap ReservedIds(1)' = {}
                             /\ server'[1].total_retrieved =
                                  server[1].total_retrieved
                                  + Cardinality(NewlyRetrieved(t))
                        ELSE /\ NewlyRetrieved(t) \subseteq server'[1].reserved_keys
                             /\ server'[1].total_retrieved = server[1].total_retrieved
               /\ (GetKeysTimeout(t) /\ gk[t].pc = "waiting")
                  => /\ gk'[t].pc = "idle"
                     /\ gk'[t].keys_retrieved = gk[t].keys_retrieved
                     /\ server' = server]_vars

\* one call has returned a key and another call, with the other remove flag,
\* waits on the empty pool with a key gathered
C24_Witness ==
    \E t \in GkThreads, u \in GkThreads :
        /\ u # t
        /\ gk[t].pc = "waiting"
        /\ gk[t].keys_retrieved # <<>>
        /\ server[1].keys = <<>>
        /\ gk[u].pc = "idle"
        /\ gk[u].keys_retrieved # <<>>
        /\ gk[u].remove # gk[t].remove

\* C25: get_key_by_id looks in the reserved table first and then in the pool
\* list; with remove=false it returns a copy and leaves pool list, reserved
\* table and statistics unchanged; with remove=true a found key is removed
\* from the structure that held it and total_retrieved increases by one; for
\* an ID in neither structure it returns nothing and changes nothing.
C25_GetKeyByIdFrame ==
    \A key_id \in 1..MaxIds, remove \in BOOLEAN :
        LET p == server[1]
            r == get_key_by_id(p, pool_file[1], key_id, remove)
            Unchanged == r.srv = p /\ r.file = pool_file[1]
        IN  IF key_id \in ReservedIds(1)
            THEN /\ r.ret \in p.reserved_keys
                 /\ r.ret.key_ID = key_id
                 /\ IF remove
                    THEN r.srv = [p EXCEPT !.reserved_keys = @ \ {r.ret},
                                           !.total_retrieved = @ + 1]
                    ELSE Unchanged
            ELSE IF key_id \in PoolIds(1)
            THEN /\ r.ret \in Range(p.keys)
                 /\ r.ret.key_ID = key_id
                 /\ IF remove
                    THEN /\ Ids(r.srv.keys) = PoolIds(1) \ {key_id}
                         /\ Len(r.srv.keys) = Len(p.keys) - 1
                         /\ r.srv = [p EXCEPT !.keys = r.srv.keys,
                                              !.total_retrieved = @ + 1]
                    ELSE Unchanged
            ELSE r.ret = None /\ Unchanged

\* keys have been retrieved by get_key_by_id alone (no get_keys call was
\* made) and the pool list still holds a key
C25_Witness ==
    /\ server[1].total_retrieved > 0
    /\ server[1].keys # <<>>
    /\ \A t \in GkThreads : gk[t] = GkIdle

\* C26: whenever the pool mutex is not held, the on-disk snapshot agrees with
\* memory: its key list equals the in-memory pool list and its total_generated
\* and total_retrieved equal the in-memory counters, after every kind of pool
\* mutation, a batch added by the background refill loop included; rehydrating
\* from that snapshot restores the same pool list and the two totals.
C26_SnapshotAgreesWithMemory ==
    LET p == server[1]
        f == pool_file[1]
        q == load_keys(NewServer(p.max_key_count), f)
    IN  /\ f.keys = p.keys
        /\ f.total_generated = p.total_generated
        /\ f.total_retrieved = p.total_retrieved
        /\ q.keys = p.keys
        /\ q.total_generated = p.total_generated
        /\ q.total_retrieved = p.total_retrieved

\* ------------------------------------------------------------------------
\* The pool with its refill loop running and callers that wait
\* ------------------------------------------------------------------------
\* get_keys calls on the pool of KME 1 while the refill loop is its only
\* source of keys
PoolLiveNext ==
    \/ Refill /\ UNCHANGED <<kmeVars, bulkVars, appVars>>
    \/ \E t \in GkThreads, count \in 1..MaxCount, remove \in BOOLEAN :
          GetKeysCall(t, count, remove) /\ UNCHANGED <<kmeVars, bulkVars, appVars>>
    \/ \E t \in GkThreads : GetKeysWake(t) /\ UNCHANGED <<kmeVars, bulkVars, appVars>>
    \/ \E t \in GkThreads : GetKeysTimeout(t) /\ UNCHANGED <<kmeVars, bulkVars, appVars>>

\* the refill loop keeps running (its stop event is never set), and a waiter
\* that notify_all wakes again and again gets the lock at some point
SpecPoolLive ==
    /\ Init
    /\ [][PoolLiveNext]_vars
    /\ WF_vars(Refill /\ UNCHANGED <<kmeVars, bulkVars, appVars>>)
    /\ \A t \in GkThreads : SF_vars(GetKeysWake(t) /\ UNCHANGED <<kmeVars, bulkVars, appVars>>)

\* the key generator of the model has no key ID left for another batch
Exhausted == nextId + KEY_GEN_BATCH_SIZE - 1 > MaxIds

StoreNext ==
    \/ Generate
    \/ EncStepsOf(1, {1}, {0, 1}, {DEFAULT_KEY_SIZE * 8})
    \/ DecSteps(1, {2}, KeyIdParams)
    \/ \E m \in net : Deliver(m)
    \/ \E m \in net : Drop(m)

SpecStore == Init /\ [][StoreNext]_vars

\* the key lists a remove request may carry
RemovalLists ==
    {[i \in 1..Len(ids) |-> generate_key(ids[i], DEFAULT_KEY_SIZE)] : ids \in KeyIdParams}

\* C28: KeyStore.remove_keys is a no-op for key_IDs it does not hold: removing
\* keys whose IDs are absent from bucket (M,S), or naming a pair with no
\* bucket, leaves the whole store unchanged; applying the same removal twice
\* gives the same store as applying it once.
C28_RemoveAbsentIsNoOp ==
    \A k \in KME, master_sae_id \in SAE, slave_sae_id \in SAE, keys \in RemovalLists :
        LET c == container[k]
            once == remove_keys(c, master_sae_id, slave_sae_id, keys)
        IN  /\ Ids(keys) \cap Ids(get_keys(c, master_sae_id, slave_sae_id)) = {}
               => once = c
            /\ remove_keys(once, master_sae_id, slave_sae_id, keys) = once

\* C29: in every reachable state the key store contains no bucket with an
\* empty key list, after any sequence of enc_keys (for any accepted number),
\* dec_keys and inbound exchange/remove events.
C29_NoEmptyBucket ==
    \A k \in KME : \A i \in 1..Len(container[k]) : container[k][i].keys # <<>>

\* C30: a KME never re-broadcasts a replication event it received from a
\* peer: handling an inbound keys/exchange or keys/remove message changes
\* only the local key store and sends no message; every broadcast message is
\* sent by a local enc_keys call or a full-match dec_keys call as it answers
\* 200, one message per peer, so the number of messages is bounded by the
\* number of such calls times the number of peers.
C30_NoRebroadcast ==
    [][/\ \A m \in net :
            Deliver(m)
            => /\ net' = net \ {m}
               /\ container'[Peer(m.to)] = container[Peer(m.to)]
               /\ UNCHANGED <<poolVars, kme_list, th, resp>>
       /\ net' \ net # {}
          => \E t \in Threads :
                /\ th[t].pc \in {"enc_loop", "dec_reply"}
                /\ th'[t].pc = "idle"
                /\ resp'[t].status = 200
                /\ Cardinality(net' \ net) <= Cardinality(OtherKmes(th[t].kme))
                /\ \A n \in net' \ net :
                      /\ n.to \in OtherKmes(th[t].kme)
                      /\ n.url = IF resp'[t].op = "enc" THEN "exchange" ELSE "remove"
                      /\ n.master_sae_id = th[t].master_sae_id
                      /\ n.slave_sae_id = th[t].slave_sae_id]_vars

\* a key that enc_keys stored on one KME has been replicated to the other one
\* and no message is under way
C30_Witness ==
    /\ net = {}
    /\ Ids(StoreKeys(container[1])) \cap Ids(StoreKeys(container[2])) # {}

\* ------------------------------------------------------------------------
\* C31..C40
\* ------------------------------------------------------------------------
\* C31: replication is best-effort.  When a broadcast to the peer fails, the
\* failure changes nothing but the message: the keys enc_keys appended stay in
\* the local bucket and the keys a full-match dec_keys removed stay removed
\* (the key store of the sender is left as it is), and the response the client
\* got (200) is not turned into an error.  The handler itself has appended
\* (enc_keys) or removed (dec_keys) locally and answered 200 in the step that
\* sent the message, whatever becomes of the message.
C31_BroadcastFailureSwallowed ==
    [][/\ \A m \in net :
            Drop(m) => UNCHANGED <<container, resp, th, poolVars, kme_list>>
       /\ \A t \in Threads :
            EncReply(t)
            => /\ resp'[t] = [op |-> "enc", status |-> 200]
               /\ Ids(th[t].keys) \subseteq
                     Ids(get_keys(container'[th[t].kme], th[t].master_sae_id,
                                  th[t].slave_sae_id))
       /\ \A t \in Threads :
            (DecReply(t) /\ DecStatus(th[t].requested_keys, th[t].selected_keys) = 200)
            => /\ resp'[t] = [op |-> "dec", status |-> 200]
               /\ container'[th[t].kme] =
                     remove_keys(container[th[t].kme], th[t].master_sae_id,
                                 th[t].slave_sae_id, th[t].selected_keys)]_vars

\* a full-match dec_keys call answered 200 and removed its key locally, its
\* remove broadcast failed and the peer still stores the key
C31_Witness ==
    /\ net = {}
    /\ resp[1] = [op |-> "dec", status |-> 200]
    /\ \E k \in KME : /\ container[k] = <<>>
                      /\ StoreKeys(container[Peer(k)]) # <<>>
                      /\ delivered[StoreKeys(container[Peer(k)])[1].key_ID] = 1

\* broadcast requests under way at the same time when their order matters
MaxReorder == 2

\* every broadcast request reaches its peer exactly once, in any order:
\* requests to both KMEs, no request fails
ReplicateNext ==
    \/ Generate
    \/ \E k \in KME, slave_sae_id \in SAE :
          EncBegin(1, k, slave_sae_id, "POST", 1, DEFAULT_KEY_SIZE * 8)
    \/ EncTake(1)
    \/ EncTimeout(1)
    \/ EncReplyUpTo(1, MaxReorder)
    \/ \E k \in KME, master_sae_id \in SAE, slave_sae_id \in SAE,
          key_id_params \in KeyIdParams :
          DecBegin(1, k, master_sae_id, slave_sae_id, "POST", key_id_params)
    \/ \E ok \in BOOLEAN : DecPool(1, ok)
    \/ DecReplyUpTo(1, MaxReorder)
    \/ \E m \in net : Deliver(m)

SpecReplicate == Init /\ [][ReplicateNext]_vars

\* no request is in flight and no message is undelivered
Quiescent == net = {} /\ \A t \in Threads : th[t].pc = "idle"

\* C32: the two key stores converge.  Every broadcast message is delivered
\* exactly once, in any order; once no request is in flight and no message is
\* undelivered both KMEs hold the same set of key_IDs in every (M,S) bucket.
C32_StoresConverge ==
    Quiescent
    => \A master_sae_id \in SAE, slave_sae_id \in SAE :
          BucketIds(container[1], master_sae_id, slave_sae_id)
          = BucketIds(container[2], master_sae_id, slave_sae_id)

\* ------------------------------------------------------------------------
\* The peer directory in full: the entries carry the URL that was probed, and
\* the process that answers at a URL may be any KME (it can be restarted
\* with another KME_ID or ATTACHED_SAE_ID between two scans).
\* ------------------------------------------------------------------------
\* the KME_ID values a status response carries
ProbeKmeIds == {1, 2, 3}
\* the URLs of OTHER_KMES
KmeUrls == {"u1", "u2"}
\* status codes of a probe; NoValue: the request raised a RequestException
ProbeCodes == {NoValue, 200, 500}

\* a probe that appends an entry whenever it succeeds
scan_kmes_append(l, kme_url, status_code, kme_id, sae_id) ==
    IF status_code = 200 /\ kme_id # NoValue /\ sae_id # NoId
    THEN Append(l, [KME_ID |-> kme_id, KME_URL |-> kme_url, SAE_ID |-> sae_id])
    ELSE l

\* Scanner._scan_kmes, the handling of one probe of kme_url: a 200 response
\* with both fields (NoValue / NoId: the field is missing or empty) adds an
\* entry or overwrites SAE_ID and KME_URL of the first entry with that KME_ID
scan_kmes_response(l, kme_url, status_code, kme_id, sae_id) ==
    IF status_code = 200 /\ kme_id # NoValue /\ sae_id # NoId
    THEN LET existing == {i \in 1..Len(l) : l[i].KME_ID = kme_id}
         IN  IF existing = {}
             THEN Append(l, [KME_ID |-> kme_id, KME_URL |-> kme_url,
                             SAE_ID |-> sae_id])
             ELSE LET first == CHOOSE i \in existing : \A j \in existing : i <= j
                  IN  [l EXCEPT ![first].SAE_ID = sae_id,
                                ![first].KME_URL = kme_url]
    ELSE l

\* one probe of the scanner of KME k
ScanProbe(k, kme_url, status_code, kme_id, sae_id) ==
    /\ kme_list' = [kme_list EXCEPT ![k] =
          scan_kmes_response(@, kme_url, status_code, kme_id, sae_id)]
    /\ UNCHANGED <<poolVars, container, net, th, resp, delivered, bulkVars, appVars>>

\* the scanner of KME 1 probes, status requests to KME 1 are answered
DirectoryNext ==
    \/ \E k \in {1}, kme_url \in KmeUrls, status_code \in ProbeCodes,
          kme_id \in ProbeKmeIds \cup {NoValue}, sae_id \in SAE \cup {NoId} :
          ScanProbe(k, kme_url, status_code, kme_id, sae_id)
    \/ \E k \in {1}, slave_sae_id \in SAE : get_status(1, k, slave_sae_id)

SpecDirectory == Init /\ [][DirectoryNext]_vars

\* C33: the scanner keeps at most one peer-directory entry per KME_ID.  A
\* successful probe that returns KME_ID and ATTACHED_SAE_ID inserts the entry
\* or overwrites the URL and the SAE ID of the existing entry for that KME_ID
\* and leaves every other entry as it is; a failed probe, a response with
\* another status or a response missing either field leaves the whole
\* directory unchanged.
C33_OneEntryPerKmeId ==
    /\ [](\A k \in KME : \A i, j \in 1..Len(kme_list[k]) :
             kme_list[k][i].KME_ID = kme_list[k][j].KME_ID => i = j)
    /\ [][\A k \in KME, kme_url \in KmeUrls, status_code \in ProbeCodes,
            kme_id \in ProbeKmeIds \cup {NoValue}, sae_id \in SAE \cup {NoId} :
            ScanProbe(k, kme_url, status_code, kme_id, sae_id)
            => LET l == kme_list[k]
                   n == kme_list'[k]
                   entry == [KME_ID |-> kme_id, KME_URL |-> kme_url,
                             SAE_ID |-> sae_id]
               IN  IF status_code = 200 /\ kme_id # NoValue /\ sae_id # NoId
                   THEN IF \E i \in 1..Len(l) : l[i].KME_ID = kme_id
                        THEN /\ Len(n) = Len(l)
                             /\ \A i \in 1..Len(l) :
                                   n[i] = IF l[i].KME_ID = kme_id THEN entry
                                          ELSE l[i]
                        ELSE n = Append(l, entry)
                   ELSE n = l]_vars

\* successful probes have put two entries into the directory of a KME, both
\* last written by probes of the same URL and with the same SAE ID, and a
\* status request has been answered 200 from the directory
C33_Witness ==
    \E k \in KME :
       /\ Len(kme_list[k]) = 2
       /\ kme_list[k][1].KME_URL = "u2"
       /\ kme_list[k][2].KME_URL = "u2"
       /\ kme_list[k][1].SAE_ID = "A"
       /\ kme_list[k][2].SAE_ID = "A"
       /\ resp[1] = [op |-> "status", status |-> 200]
       /\ th[1].pc = "idle"

\* App.stop is called at any time on either KME while the two loops run
ShutdownNext ==
    \/ \E k \in KME : AppStop(k)
    \/ \E k \in KME, o \in KME, ok \in BOOLEAN : ScannerStart(k, o, ok)
    \/ \E k \in KME : KeyPoolStart(k)
    \/ \E k \in KME, slave_sae_id \in SAE : get_status(1, k, slave_sae_id)

\* both loops keep being scheduled: a thread that can make its next check of
\* the stop event eventually makes it
SpecShutdown ==
    /\ Init
    /\ [][ShutdownNext]_vars
    /\ \A k \in KME : WF_vars(\E o \in KME, ok \in BOOLEAN : ScannerStart(k, o, ok))
    /\ \A k \in KME : WF_vars(KeyPoolStart(k))

\* C34: cooperative shutdown.  After App.stop has been called on a KME, of
\* either role, its scanner loop and its key-pool worker (the refill loop on
\* the generating KME, the idle loop on the other one) each observe the stop
\* signal at their next check and terminate.
C34_LoopsTerminateAfterStop ==
    \A k \in KME :
       app[k].stop_called
       ~> (app[k].scanner_thread = "stopped" /\ app[k].key_pool_thread = "stopped")

\* the bulk-pool routes of both KMEs, each handled by two threads, obtain the
\* router singleton
SingletonNext ==
    \/ \E k \in KME, t \in Threads : GetRouterBegin(k, t)
    \/ \E k \in KME, t \in Threads : GetRouterCreate(k, t)
    \/ \E k \in KME, t \in Threads : GetRouterReturn(k, t)

SpecSingleton == Init /\ [][SingletonNext]_vars

\* C35: the lazy initialization of a process-wide singleton is safe under
\* concurrency.  When several threads call the getter at the same time before
\* the instance exists, exactly one instance is created and every caller,
\* then and later, receives that same instance.
C35_OneInstance ==
    \A k \in KME :
       /\ app[k].routers_created <= 1
       /\ \A t \in Threads :
             app[k].getter[t].ret # 0 => app[k].getter[t].ret = 1

\* ------------------------------------------------------------------------
\* KeyStore.append_keys step by step.  KeyStore holds no lock: the lookup of
\* the bucket (get_sae_key_container) and the change of self.container are
\* separate steps of the calling handler thread, and other handler threads of
\* the same KME run between them.
\* ------------------------------------------------------------------------
\* External.get_key, line 88, on thread t: append_keys up to the test of
\* len(container), key_store.py lines 33-34
AppendKeysFind(t) ==
    /\ th[t].pc = "enc_loop"
    /\ Len(th[t].keys) = th[t].number_of_keys
    /\ th' = [th EXCEPT ![t].pc =
                IF FirstBucket(container[th[t].kme], 1, th[t].master_sae_id,
                               th[t].slave_sae_id) = 0
                THEN "append_new" ELSE "append_extend"]
    /\ UNCHANGED <<poolVars, container, kme_list, net, resp, delivered, bulkVars, appVars>>

\* key_store.py lines 35-52 and the return of the handler: a new bucket is
\* appended, or the loop extends the first bucket of (M, S) it finds now (none:
\* nothing is stored); the keys are broadcast and returned with 200
AppendKeysStore(t) ==
    LET k == th[t].kme
        i == FirstBucket(container[k], 1, th[t].master_sae_id, th[t].slave_sae_id)
    IN  /\ th[t].pc \in {"append_new", "append_extend"}
        /\ Cardinality(net) < MaxInFlight
        /\ container' = [container EXCEPT ![k] =
              IF th[t].pc = "append_new"
              THEN Append(@, [master_sae_id |-> th[t].master_sae_id,
                              slave_sae_id |-> th[t].slave_sae_id,
                              keys |-> th[t].keys])
              ELSE IF i = 0 THEN @
              ELSE [@ EXCEPT ![i].keys = @ \o th[t].keys]]
        /\ net' = net \cup Broadcast(k, "exchange", th[t].master_sae_id,
                                     th[t].slave_sae_id, th[t].keys)
        /\ Reply(t, "enc", 200, th[t].keys)
        /\ UNCHANGED <<poolVars, kme_list, delivered, bulkVars, appVars>>

\* two handler threads of KME 1: enc_keys requests for one key of another
\* size, and dec_keys requests that redeem the whole bucket of a pair (each
\* remove_keys call taken as one step); the peer handles the broadcasts
StoreConcNext ==
    \/ \E t \in Threads, slave_sae_id \in SAE :
          EncBegin(t, 1, slave_sae_id, "POST", 1, OtherSizeBits)
    \/ \E t \in Threads : EncTakeUpTo(t, MaxConcKeys)
    \/ \E t \in Threads : AppendKeysFind(t)
    \/ \E t \in Threads : AppendKeysStore(t)
    \/ \E t \in Threads, slave_sae_id \in SAE :
          DecBegin(t, 1, AttachedSae(1), slave_sae_id, "GET", <<>>)
    \/ \E t \in Threads : DecReply(t)
    \/ \E m \in net : Deliver(m)

SpecStoreConc == Init /\ [][StoreConcNext]_vars

\* C36: key-store mutations are serialized.  Under any interleaving of
\* concurrent append_keys and remove_keys calls on one KME there is at most
\* one bucket per ordered pair (M,S), and no appended key is lost or hidden
\* from get_keys(M,S): when append_keys returns, the keys it was given are in
\* the list get_keys(M,S) returns (as they are after the calls in any
\* sequential order).
C36_StoreMutationsSerialized ==
    /\ [](\A k \in KME : \A i, j \in 1..Len(container[k]) :
             Matches(container[k][i], container[k][j].master_sae_id,
                     container[k][j].slave_sae_id) => i = j)
    /\ [][\A t \in Threads :
            AppendKeysStore(t)
            => Ids(th[t].keys) \subseteq
                  Ids(get_keys(container'[th[t].kme], th[t].master_sae_id,
                               th[t].slave_sae_id))]_vars

C38_ReservedWereHandedOut ==
    \A id \in ReservedIds(1) :
       \/ \E t \in Threads : id \in Ids(th[t].keys)
       \/ \E k \in KME : id \in Ids(StoreKeys(container[k]))
       \/ \E m \in net : id \in Ids(m.keys)
       \/ id \in DOMAIN delivered /\ delivered[id] > 0

\* C39: a dec_keys request that does not end in a full match (status 206 or
\* 404) consumes nothing: every key it reported or looked up is still in the
\* key store of its KME, in the shared pool list or in the reserved table when
\* it replies, so a later dec_keys can obtain it.
C39_PartialDecConsumesNothing ==
    [][\A t \in Threads :
         (DecReply(t) /\ DecStatus(th[t].requested_keys, th[t].selected_keys) # 200)
         => \A id \in Ids(th[t].selected_keys) :
               \/ id \in Ids(StoreKeys(container'[th[t].kme]))
               \/ id \in PoolIds(1)' \cup ReservedIds(1)']_vars

\* C40: the statistic total_generated equals the number of keys the pool has
\* generated since it started with no snapshot: each key appended by
\* add_keys_batch or by the refill loop increases it by exactly one, and
\* total_retrieved never exceeds total_generated.
C40_TotalGeneratedCountsKeys ==
    /\ server[1].total_generated = Cardinality(Generated)
    /\ server[1].total_retrieved <= server[1].total_generated

====
